---- MODULE Spec2Model ----
(***************************************************************************)
(* Model of the log analysis engine of peak-cloud-share:                   *)
(*   src/core/log_analysis.py  AdvancedLogAnalyzer                         *)
(*   src/app.py                the /logs route (log_analysis)              *)
(*                                                                         *)
(* Text is modelled as a sequence of lexical atoms (TLA+ strings): the     *)
(* path "/download/report.PDF" is <<"/","download","/","report",".","PDF">>*)
(* A literal the code searches for is one atom.  The Chinese literals of   *)
(* the source are written in pinyin, see YONGHU .. GAOWEI_LANJIE.          *)
(* A log line is the sequence of its lexical fields, each tagged with the  *)
(* delimiters it is written in; the regular expressions of the parsers     *)
(* are matched against that sequence of fields.                            *)
(***************************************************************************)
EXTENDS Integers, Sequences, FiniteSets, TLC

VARIABLES
    files,            \* logs/: category -> [exists, lines]
    pc,               \* position of the /logs request
    fidx,             \* index of the log file being read (1..3), 4 past the last
    pos,              \* number of lines of that file already consumed
    log_data,         \* AdvancedLogAnalyzer.log_data
    analysis_result,  \* AdvancedLogAnalyzer.analysis_result
    logged,           \* WARNING/ERROR records and console output, in order
    web,              \* web/: the two artifacts
    response,         \* what the request returned
    reqs,             \* the /logs requests of a server run, each with its analyzer
    db_users,         \* table users: username -> row, or NoRow
    now,              \* the clock, in seconds
    auth_result,      \* what the last validate_credentials call returned
    auth_calls,       \* number of validate_credentials calls made
    pager,            \* a call of Pagination.generate: its arguments and result
    dbq,              \* a call of Database.execute_query
    uploads,          \* the upload folder: the files under it
    saved,            \* what the last FileManager.save_file call did
    sched,            \* the CleanupScheduler, its thread and the caller of stop()
    calls             \* concurrent validate_credentials calls, each with its row

\* the variables of one /logs request, of the requests of a server run, and
\* of the authentication
logsVars == <<pc, fidx, pos, log_data, analysis_result, response>>
runVars  == <<reqs>>
authVars == <<db_users, now, auth_result, auth_calls>>

\* the variables of the parts of the system around the log analysis
sysVars  == <<pager, dbq, uploads, saved, sched, calls>>

vars == <<files, logged, web, logsVars, runVars, authVars, sysVars>>

----------------------------------------------------------------------------
(* Bounds *)

\* total number of lines over the three log files of one run
MaxLines == 2
\* SpecTop: number of lines that repeat an already counted key
MaxExtra == 2
\* SpecRuns: number of /logs requests of a server run
NumRequests == 2
\* SpecRuns: total number of lines over the three log files
MaxRunLines == 1
\* SpecAuth: number of validate_credentials calls, and of steps of the clock
MaxCalls == 5
MaxTicks == 3

----------------------------------------------------------------------------
(* Literals of the source *)

YONGHU         == "yonghu"                 \* '用户'
SHANGCHUAN     == "shangchuanwenjian"      \* '上传文件'
SHIBAI         == "shibai"                 \* '失败'
GAOWEI_LEIXING == "gaoweiwenjianleixing"   \* '高危文件类型'
GAOWEI_LANJIE  == "gaoweiwenjianlanjie"    \* '高危文件拦截'
SP             == " "

TOP_USERS     == 10
TOP_HANDLERS  == 5
TOP_DOWNLOADS == 5
SECURITY_ROWS == 5

LogTypes == <<"access", "application", "error">>
LogFiles == <<"access.log", "application.log", "error.log">>

----------------------------------------------------------------------------
(* Text helpers: str.split, "in", re.search on sequences of atoms *)

Min(a, b) == IF a <= b THEN a ELSE b

Contains(s, atom) == \E i \in 1..Len(s) : s[i] = atom

\* index of the first occurrence of atom at or after position from, 0 if none
FirstAt(s, atom, from) ==
    IF \E i \in from..Len(s) : s[i] = atom
    THEN CHOOSE i \in from..Len(s) : s[i] = atom /\ \A j \in from..(i-1) : s[j] # atom
    ELSE 0

\* index of the last occurrence of atom, 0 if none
LastOf(s, atom) ==
    IF Contains(s, atom)
    THEN CHOOSE i \in 1..Len(s) : s[i] = atom /\ \A j \in (i+1)..Len(s) : s[j] # atom
    ELSE 0

\* s.split(sep)[-1]
AfterLast(s, sep) == SubSeq(s, LastOf(s, sep) + 1, Len(s))

\* s.split(sep)[0]
BeforeFirst(s, sep) ==
    IF Contains(s, sep) THEN SubSeq(s, 1, FirstAt(s, sep, 1) - 1) ELSE s

\* s.split(): the maximal runs of non-blank atoms
RECURSIVE SplitWs(_)
SplitWs(s) ==
    IF s = <<>> THEN <<>>
    ELSE IF Head(s) = SP THEN SplitWs(Tail(s))
    ELSE LET stop == FirstAt(s, SP, 1)
             n    == IF stop = 0 THEN Len(s) ELSE stop - 1
         IN  <<SubSeq(s, 1, n)>> \o SplitWs(SubSeq(s, n + 1, Len(s)))

\* re.search(r'<lit> (.*?) ', s): leftmost "<lit> " that a later blank follows;
\* the group is the text up to the first such blank
SearchTokenAfter(s, lit) ==
    LET starts == { i \in 1..Len(s) : /\ s[i] = lit
                                      /\ i + 1 <= Len(s) /\ s[i+1] = SP
                                      /\ FirstAt(s, SP, i + 2) # 0 }
    IN  IF starts = {} THEN [found |-> FALSE, group |-> <<>>]
        ELSE LET i == CHOOSE k \in starts : \A m \in starts : k <= m
             IN  [found |-> TRUE,
                  group |-> SubSeq(s, i + 2, FirstAt(s, SP, i + 2) - 1)]

\* re.search(r'<open> (.*?) <close>', s): leftmost "<open> " followed later by
\* " <close>"; the group is the text up to the first " <close>"
FirstClose(s, close, from) ==
    IF \E j \in from..(Len(s) - 1) : s[j] = SP /\ s[j+1] = close
    THEN CHOOSE j \in from..(Len(s) - 1) :
            /\ s[j] = SP /\ s[j+1] = close
            /\ \A m \in from..(j-1) : ~(s[m] = SP /\ s[m+1] = close)
    ELSE 0

SearchBetween(s, open, close) ==
    LET starts == { i \in 1..Len(s) : /\ s[i] = open
                                      /\ i + 1 <= Len(s) /\ s[i+1] = SP
                                      /\ FirstClose(s, close, i + 2) # 0 }
    IN  IF starts = {} THEN [found |-> FALSE, group |-> <<>>]
        ELSE LET i == CHOOSE k \in starts : \A m \in starts : k <= m
             IN  [found |-> TRUE,
                  group |-> SubSeq(s, i + 2, FirstClose(s, close, i + 2) - 1)]

\* re.search(r'<key>=([^\s]+)', s): the context is a blank-separated list of
\* key=value tokens; a token is the atoms <<key, "=", value...>>
SearchKeyValue(s, key) ==
    LET starts == { i \in 1..Len(s) : /\ s[i] = key
                                      /\ i + 2 <= Len(s) /\ s[i+1] = "="
                                      /\ s[i+2] # SP }
    IN  IF starts = {} THEN [found |-> FALSE, group |-> <<>>]
        ELSE LET i    == CHOOSE k \in starts : \A m \in starts : k <= m
                 stop == FirstAt(s, SP, i + 2)
             IN  [found |-> TRUE,
                  group |-> SubSeq(s, i + 2, IF stop = 0 THEN Len(s) ELSE stop - 1)]

\* '<key>=' in s
HasKeyEq(s, key) == \E i \in 1..(Len(s) - 1) : s[i] = key /\ s[i+1] = "="

----------------------------------------------------------------------------
(* Numbers written in decimal *)

NumTable ==
    ("00" :> 0) @@ ("01" :> 1) @@ ("03" :> 3) @@ ("10" :> 10) @@ ("11" :> 11) @@
    ("12" :> 12) @@ ("13" :> 13) @@ ("23" :> 23) @@ ("50" :> 50) @@
    ("200" :> 200) @@ ("404" :> 404) @@ ("2025" :> 2025)

IsDigits(a) == a \in DOMAIN NumTable

\* \w+ : one non-empty word atom
IsWord(a) == a \notin {"", SP, "[", "]", "-", "=", ".", "/", "?", ":"}

\* int(text) of a \d+ group
ToInt(t) == NumTable[t[1]]

\* float(text), in hundredths: "12.50" -> 1250; anything else is a ValueError
ToFloat(t) ==
    IF Len(t) = 1 /\ IsDigits(t[1])
        THEN [ok |-> TRUE, value |-> 100 * NumTable[t[1]]]
    ELSE IF Len(t) = 3 /\ IsDigits(t[1]) /\ t[2] = "." /\ IsDigits(t[3])
        THEN [ok |-> TRUE, value |-> 100 * NumTable[t[1]] + NumTable[t[3]]]
    ELSE [ok |-> FALSE, value |-> 0]

\* days of a month of the proleptic Gregorian calendar
DaysIn(year, month) ==
    IF month = 2
        THEN IF (year % 4 = 0 /\ year % 100 # 0) \/ year % 400 = 0 THEN 29 ELSE 28
    ELSE IF month \in {4, 6, 9, 11} THEN 30 ELSE 31

\* datetime.strptime(text, '%Y-%m-%d %H:%M:%S')
Strptime(t) ==
    IF /\ Len(t) = 11
       /\ t[2] = "-" /\ t[4] = "-" /\ t[6] = SP /\ t[8] = ":" /\ t[10] = ":"
       /\ \A i \in {1, 3, 5, 7, 9, 11} : IsDigits(t[i])
       /\ NumTable[t[3]] \in 1..12
       /\ NumTable[t[5]] \in 1..DaysIn(NumTable[t[1]], NumTable[t[3]])
       /\ NumTable[t[7]] \in 0..23 /\ NumTable[t[9]] \in 0..59
       /\ NumTable[t[11]] \in 0..59
    THEN [ok |-> TRUE,
          value |-> [year |-> NumTable[t[1]], month |-> NumTable[t[3]],
                     day |-> NumTable[t[5]], hour |-> NumTable[t[7]],
                     minute |-> NumTable[t[9]], second |-> NumTable[t[11]]]]
    ELSE [ok |-> FALSE,
          value |-> [year |-> 0, month |-> 0, day |-> 0, hour |-> 0,
                     minute |-> 0, second |-> 0]]

----------------------------------------------------------------------------
(* Log lines: the sequence of their fields *)

Br(v)   == [k |-> "br",   v |-> v]    \* [v]
Qt(v)   == [k |-> "qt",   v |-> v]    \* "v"
Bare(v) == [k |-> "bare", v |-> v]    \* v
Ms(v)   == [k |-> "ms",   v |-> v]    \* vms
Txt(v)  == [k |-> "txt",  v |-> v]    \* free text up to the next " ["

\* r'\[(.*?)\] \[(.*?)\] \[(.*?)\] "(.*?)" (\d+) (.*?)ms "(.*?)"'
AccessPattern == <<"br", "br", "br", "qt", "digits", "ms", "qt">>

\* r'\[(.*?)\] \[(\w+)\s*\] \[(\w+)\s*\] \[(.*?)\] \[(.*?)\] (.*?) \[(.*?)\]'
ApplicationPattern == <<"br", "brword", "brword", "br", "br", "txt", "br">>

FieldMatches(f, what) ==
    CASE what = "digits" -> f.k = "bare" /\ Len(f.v) = 1 /\ IsDigits(f.v[1])
      [] what = "brword" -> f.k = "br" /\ Len(f.v) = 1 /\ IsWord(f.v[1])
      [] what = "txt"    -> f.k \in {"txt", "bare"}
      [] OTHER           -> f.k = what

\* re.match(pattern, line): anchored at the start of the line only
ReMatch(pattern, line) ==
    /\ Len(line) >= Len(pattern)
    /\ \A i \in 1..Len(pattern) : FieldMatches(line[i], pattern[i])

NoTime == [year |-> 0, month |-> 0, day |-> 0, hour |-> 0, minute |-> 0, second |-> 0]

NoAccessEntry ==
    [timestamp |-> NoTime, ip |-> <<>>, request_id |-> <<>>, method |-> <<>>,
     path |-> <<>>, status_code |-> 0, response_time |-> 0, user_agent |-> <<>>,
     protocol |-> <<>>, log_type |-> "access"]

NoTextEntry(log_type) ==
    [timestamp |-> NoTime, log_level |-> <<>>, module |-> <<>>, ip |-> <<>>,
     request_id |-> <<>>, message |-> <<>>, context |-> <<>>, log_type |-> log_type]

\* the entry built under "if match": st is "raise" when building it raises
MatchedAccessEntry(line) ==
    LET ts     == Strptime(line[1].v)
        tokens == SplitWs(line[4].v)
        rt     == ToFloat(line[6].v)
    IN  IF ~ts.ok
            THEN [st |-> "raise", exc |-> "ValueError", entry |-> NoAccessEntry]
        ELSE IF Len(tokens) = 0
            THEN [st |-> "raise", exc |-> "IndexError", entry |-> NoAccessEntry]
        ELSE IF ~rt.ok
            THEN [st |-> "raise", exc |-> "ValueError", entry |-> NoAccessEntry]
        ELSE [st |-> "ok", exc |-> "",
              entry |-> [timestamp     |-> ts.value,
                         ip            |-> line[2].v,
                         request_id    |-> line[3].v,
                         method        |-> tokens[1],
                         path          |-> IF Len(tokens) > 1 THEN tokens[2] ELSE <<>>,
                         status_code   |-> ToInt(line[5].v),
                         response_time |-> rt.value,
                         user_agent    |-> line[7].v,
                         protocol      |-> <<"HTTP/1.1">>,
                         log_type      |-> "access"]]

\* parse_access_log without its "if match": match.group on None raises
AccessEntry_unguarded(line) ==
    IF ~ReMatch(AccessPattern, line)
        THEN [st |-> "raise", exc |-> "AttributeError", entry |-> NoAccessEntry]
    ELSE MatchedAccessEntry(line)

\* What parse_access_log makes of a line: st is "nomatch" when the pattern
\* does not match, else as the entry built from the match
AccessEntry(line) ==
    IF ~ReMatch(AccessPattern, line)
        THEN [st |-> "nomatch", exc |-> "", entry |-> NoAccessEntry]
    ELSE MatchedAccessEntry(line)

\* The entry parse_application_log / parse_error_log build from a line
TextEntry(line, log_type) ==
    IF ~ReMatch(ApplicationPattern, line)
        THEN [st |-> "nomatch", exc |-> "", entry |-> NoTextEntry(log_type)]
    ELSE LET ts == Strptime(line[1].v)
         IN  IF ~ts.ok
                 THEN [st |-> "raise", exc |-> "ValueError", entry |-> NoTextEntry(log_type)]
             ELSE [st |-> "ok", exc |-> "",
                   entry |-> [timestamp  |-> ts.value,
                              log_level  |-> line[2].v,
                              module     |-> line[3].v,
                              ip         |-> line[4].v,
                              request_id |-> line[5].v,
                              message    |-> line[6].v,
                              context    |-> line[7].v,
                              log_type   |-> log_type]]

----------------------------------------------------------------------------
(* dict / defaultdict: the sequence of its items in insertion order *)

HasKey(d, key) == \E i \in 1..Len(d) : d[i].k = key

IndexOf(d, key) == CHOOSE i \in 1..Len(d) : d[i].k = key

\* d[key], 0 when the key is absent (reads below never insert)
Get(d, key) == IF HasKey(d, key) THEN d[IndexOf(d, key)].v ELSE 0

\* defaultdict(int): d[key] += 1
Inc(d, key) ==
    IF HasKey(d, key)
    THEN [d EXCEPT ![IndexOf(d, key)].v = @ + 1]
    ELSE Append(d, [k |-> key, v |-> 1])

\* defaultdict(list): d[key].append(x)
AppendTo(d, key, x) ==
    IF HasKey(d, key)
    THEN [d EXCEPT ![IndexOf(d, key)].v = Append(@, x)]
    ELSE Append(d, [k |-> key, v |-> <<x>>])

Keys(d) == { d[i].k : i \in 1..Len(d) }

RECURSIVE SumValues(_)
SumValues(d) == IF d = <<>> THEN 0 ELSE Head(d).v + SumValues(Tail(d))

RECURSIVE SumSeq(_)
SumSeq(s) == IF s = <<>> THEN 0 ELSE Head(s) + SumSeq(Tail(s))

----------------------------------------------------------------------------
(* AdvancedLogAnalyzer *)

\* __init__
NewLogData == [access |-> <<>>, application |-> <<>>, error |-> <<>>]

NewAnalysisResult ==
    [time_distribution |-> <<>>, request_types |-> <<>>, status_codes |-> <<>>,
     ip_activities |-> <<>>, log_levels |-> <<>>, handlers |-> <<>>,
     user_actions |-> <<>>, protocols |-> <<>>, security_events |-> <<>>,
     file_types |-> <<>>, users |-> <<>>, download_stats |-> <<>>,
     response_times |-> <<>>, interface_response_times |-> <<>>]

\* the analyzer: its two attributes
NewAnalyzer == [log_data |-> NewLogData, analysis_result |-> NewAnalysisResult]

\* the whole path taken as the key, query string included
InterfacePath_whole(path) == path

\* key of interface_response_times: the path up to the first '?'
InterfacePath(path) == IF Contains(path, "?") THEN BeforeFirst(path, "?") ELSE path

\* parse_access_log(line) on analyzer a, when the line yields entry e
StoreAccess(a, e) ==
    [log_data |-> [a.log_data EXCEPT !.access = Append(@, e)],
     analysis_result |->
        [a.analysis_result EXCEPT
            !.response_times = Append(@, e.response_time),
            !.interface_response_times =
                AppendTo(@, InterfacePath(e.path), e.response_time)]]

\* the name search with the closing blank made optional at the end of the text
UserOf_toEnd(message) ==
    IF Contains(message, YONGHU)
    THEN LET starts == { i \in 1..Len(message) :
                            /\ message[i] = YONGHU
                            /\ i + 1 <= Len(message) /\ message[i+1] = SP }
         IN  IF starts = {} THEN [found |-> FALSE, group |-> <<>>]
             ELSE LET i    == CHOOSE k \in starts : \A m \in starts : k <= m
                      stop == FirstAt(message, SP, i + 2)
                  IN  [found |-> TRUE,
                       group |-> SubSeq(message, i + 2,
                                        IF stop = 0 THEN Len(message) ELSE stop - 1)]
    ELSE [found |-> FALSE, group |-> <<>>]

\* the name tallied in users for a message
UserOf(message) ==
    IF Contains(message, YONGHU)
    THEN SearchTokenAfter(message, YONGHU)
    ELSE [found |-> FALSE, group |-> <<>>]

\* parse_application_log(line) on analyzer a, when the line yields entry e
StoreApplication(a, e) ==
    [log_data |-> [a.log_data EXCEPT !.application = Append(@, e)],
     analysis_result |->
        IF UserOf(e.message).found
        THEN [a.analysis_result EXCEPT !.users = Inc(@, UserOf(e.message).group)]
        ELSE a.analysis_result]

\* parse_error_log(line) on analyzer a, when the line yields entry e
StoreError(a, e) ==
    [log_data |-> [a.log_data EXCEPT !.error = Append(@, e)],
     analysis_result |-> a.analysis_result]

----------------------------------------------------------------------------
(* analyze_logs *)

\* entry.get('log_level', ''), entry.get('message', ''), entry.get('context', ''):
\* an access entry has none of the three keys
LevelOf(log_type, e)   == IF log_type = "access" THEN <<>> ELSE e.log_level
MessageOf(log_type, e) == IF log_type = "access" THEN <<>> ELSE e.message
ContextOf(log_type, e) == IF log_type = "access" THEN <<>> ELSE e.context

\* path.split('/')[-1]
DownloadName(path) == AfterLast(path, "/")

\* filename.split('.')[-1] if '.' in filename else 'unknown'
Extension(filename) ==
    IF Contains(filename, ".") THEN AfterLast(filename, ".") ELSE <<"unknown">>

\* the access-only part of the loop body without its test for 'download'
AnalyzeAccess_alldownloads(ar, e) ==
    LET a1 == [ar EXCEPT !.request_types = Inc(@, e.method),
                         !.status_codes  = Inc(@, e.status_code),
                         !.ip_activities = Inc(@, e.ip),
                         !.protocols     = Inc(@, e.protocol)]
        ctx == ContextOf("access", e)
        a2 == IF HasKeyEq(ctx, "user") /\ SearchKeyValue(ctx, "user").found
              THEN [a1 EXCEPT !.user_actions = Inc(@, SearchKeyValue(ctx, "user").group)]
              ELSE a1
    IN  [a2 EXCEPT !.file_types     = Inc(@, Extension(DownloadName(e.path))),
                   !.download_stats = Inc(@, DownloadName(e.path))]

\* the access-only part of the loop body
AnalyzeAccess(ar, e) ==
    LET a1 == [ar EXCEPT !.request_types = Inc(@, e.method),
                         !.status_codes  = Inc(@, e.status_code),
                         !.ip_activities = Inc(@, e.ip),
                         !.protocols     = Inc(@, e.protocol)]
        ctx == ContextOf("access", e)
        a2 == IF HasKeyEq(ctx, "user") /\ SearchKeyValue(ctx, "user").found
              THEN [a1 EXCEPT !.user_actions = Inc(@, SearchKeyValue(ctx, "user").group)]
              ELSE a1
    IN  IF Contains(e.path, "download")
        THEN [a2 EXCEPT !.file_types     = Inc(@, Extension(DownloadName(e.path))),
                        !.download_stats = Inc(@, DownloadName(e.path))]
        ELSE a2

\* the handlers part of the loop body
AnalyzeHandler(ar, ctx) ==
    IF HasKeyEq(ctx, "path") /\ SearchKeyValue(ctx, "path").found
    THEN [ar EXCEPT !.handlers = Inc(@, SearchKeyValue(ctx, "path").group)]
    ELSE ar

\* the security check without its test of the log level
SecurityEvent_anylevel(level, message, timestamp) ==
    LET file == SearchBetween(message, SHANGCHUAN, SHIBAI)
        user == SearchTokenAfter(message, YONGHU)
    IN  IF /\ Contains(message, GAOWEI_LEIXING)
           /\ message # <<>>
           /\ file.found
           /\ user.found
        THEN <<[timestamp |-> timestamp,
                user      |-> user.group,
                filename  |-> file.group,
                type      |-> GAOWEI_LANJIE,
                extension |-> Extension(file.group)]>>
        ELSE <<>>

\* the security event an entry gives rise to, if any
SecurityEvent(level, message, timestamp) ==
    LET file == SearchBetween(message, SHANGCHUAN, SHIBAI)
        user == SearchTokenAfter(message, YONGHU)
    IN  IF /\ level = <<"ERROR">>
           /\ Contains(message, GAOWEI_LEIXING)
           /\ message # <<>>
           /\ file.found
           /\ user.found
        THEN <<[timestamp |-> timestamp,
                user      |-> user.group,
                filename  |-> file.group,
                type      |-> GAOWEI_LANJIE,
                extension |-> Extension(file.group)]>>
        ELSE <<>>

\* the loop body with the hour tally moved under "if log_type == 'access'"
AnalyzeEntry_accessHours(ar, log_type, e) ==
    LET a1 == IF log_type = "access"
              THEN [ar EXCEPT !.time_distribution = Inc(@, e.timestamp.hour)]
              ELSE ar
        a2 == IF log_type = "access" THEN AnalyzeAccess(a1, e) ELSE a1
        a3 == [a2 EXCEPT !.log_levels = Inc(@, LevelOf(log_type, e))]
        a4 == AnalyzeHandler(a3, ContextOf(log_type, e))
    IN  [a4 EXCEPT !.security_events =
            @ \o SecurityEvent(LevelOf(log_type, e), MessageOf(log_type, e), e.timestamp)]

\* the loop body with the security event put in front of the list
AnalyzeEntry_prepend(ar, log_type, e) ==
    LET a1 == [ar EXCEPT !.time_distribution = Inc(@, e.timestamp.hour)]
        a2 == IF log_type = "access" THEN AnalyzeAccess(a1, e) ELSE a1
        a3 == [a2 EXCEPT !.log_levels = Inc(@, LevelOf(log_type, e))]
        a4 == AnalyzeHandler(a3, ContextOf(log_type, e))
    IN  [a4 EXCEPT !.security_events =
            SecurityEvent(LevelOf(log_type, e), MessageOf(log_type, e), e.timestamp) \o @]

\* the loop body with the search for 'user=' run on entries of every type
AnalyzeEntry_anyuser(ar, log_type, e) ==
    LET a1 == [ar EXCEPT !.time_distribution = Inc(@, e.timestamp.hour)]
        a2 == IF log_type = "access" THEN AnalyzeAccess(a1, e)
              ELSE IF HasKeyEq(e.context, "user") /\ SearchKeyValue(e.context, "user").found
              THEN [a1 EXCEPT !.user_actions =
                                  Inc(@, SearchKeyValue(e.context, "user").group)]
              ELSE a1
        a3 == [a2 EXCEPT !.log_levels = Inc(@, LevelOf(log_type, e))]
        a4 == AnalyzeHandler(a3, ContextOf(log_type, e))
    IN  [a4 EXCEPT !.security_events =
            @ \o SecurityEvent(LevelOf(log_type, e), MessageOf(log_type, e), e.timestamp)]

\* one iteration of the inner loop of analyze_logs
AnalyzeEntry(ar, log_type, e) ==
    LET a1 == [ar EXCEPT !.time_distribution = Inc(@, e.timestamp.hour)]
        a2 == IF log_type = "access" THEN AnalyzeAccess(a1, e) ELSE a1
        a3 == [a2 EXCEPT !.log_levels = Inc(@, LevelOf(log_type, e))]
        a4 == AnalyzeHandler(a3, ContextOf(log_type, e))
    IN  [a4 EXCEPT !.security_events =
            @ \o SecurityEvent(LevelOf(log_type, e), MessageOf(log_type, e), e.timestamp)]

\* the inner loop stopping one entry short
RECURSIVE AnalyzeEntries_short(_, _, _)
AnalyzeEntries_short(ar, log_type, entries) ==
    IF Len(entries) <= 1 THEN ar
    ELSE AnalyzeEntries_short(AnalyzeEntry(ar, log_type, Head(entries)), log_type,
                              Tail(entries))

\* the inner loop over the entries of one log type
RECURSIVE AnalyzeEntries(_, _, _)
AnalyzeEntries(ar, log_type, entries) ==
    IF entries = <<>> THEN ar
    ELSE AnalyzeEntries(AnalyzeEntry(ar, log_type, Head(entries)), log_type, Tail(entries))

\* analyze_logs reading log_levels[''] of the defaultdict before its loops
AnalyzeLogs_touch(ld, ar) ==
    AnalyzeEntries(
        AnalyzeEntries(
            AnalyzeEntries(
                [ar EXCEPT !.log_levels =
                    IF HasKey(@, <<>>) THEN @ ELSE Append(@, [k |-> <<>>, v |-> 0])],
                "access", ld.access),
            "application", ld.application),
        "error", ld.error)

\* analyze_logs: access, then application, then error
AnalyzeLogs(ld, ar) ==
    AnalyzeEntries(
        AnalyzeEntries(
            AnalyzeEntries(ar, "access", ld.access),
            "application", ld.application),
        "error", ld.error)

----------------------------------------------------------------------------
(* Ranking: sorted(items, key=count, reverse=True)[:n] *)

\* insert item x into a descending list behind every item that does not
\* count less (sorted() is stable, also with reverse=True)
RECURSIVE InsertDesc(_, _)
InsertDesc(sorted, x) ==
    IF sorted = <<>> THEN <<x>>
    ELSE IF Head(sorted).v >= x.v THEN <<Head(sorted)>> \o InsertDesc(Tail(sorted), x)
    ELSE <<x>> \o sorted

RECURSIVE SortDesc(_)
SortDesc(d) ==
    IF d = <<>> THEN <<>>
    ELSE InsertDesc(SortDesc(SubSeq(d, 1, Len(d) - 1)), d[Len(d)])

\* the ranking without its slice
TopN_uncut(d, n) == SortDesc(d)

TopN(d, n) == SubSeq(SortDesc(d), 1, Min(n, Len(d)))

RECURSIVE MaxSeq(_)
MaxSeq(s) ==
    IF Len(s) = 1 THEN s[1]
    ELSE LET m == MaxSeq(Tail(s)) IN IF s[1] >= m THEN s[1] ELSE m

RECURSIVE MinSeq(_)
MinSeq(s) ==
    IF Len(s) = 1 THEN s[1]
    ELSE LET m == MinSeq(Tail(s)) IN IF s[1] <= m THEN s[1] ELSE m

\* f"{total / count:.2f}": the quotient of two numbers of hundredths, rounded
\* to a whole number of hundredths (half to even)
Fmt2(total, count) ==
    LET q == total \div count
        r == total % count
    IN  IF 2 * r > count \/ (2 * r = count /\ q % 2 = 1) THEN q + 1 ELSE q

----------------------------------------------------------------------------
(* generate_visualizations / generate_report *)

Absent == [present |-> FALSE]

\* any(self.log_data.values())
AnyLogData(ld) == ld.access # <<>> \/ ld.application # <<>> \/ ld.error # <<>>

\* the extension tally of the security chart
RECURSIVE ByExtension(_)
ByExtension(events) ==
    IF events = <<>> THEN <<>>
    ELSE Inc(ByExtension(SubSeq(events, 1, Len(events) - 1)),
             events[Len(events)].extension)

\* the series of the nine charts of full_analysis.html
ChartData(ar) ==
    [time_distribution |-> ar.time_distribution,
     status_codes      |-> ar.status_codes,
     request_types     |-> ar.request_types,
     log_levels        |-> ar.log_levels,
     top_users         |-> TopN(ar.users, TOP_USERS),
     protocols         |-> ar.protocols,
     security_events   |-> ByExtension(ar.security_events),
     file_types        |-> ar.file_types,
     top_downloads     |-> TopN(ar.download_stats, TOP_DOWNLOADS)]

\* number of characters of a text
RECURSIVE CharLen(_)
CharLen(t) == IF t = <<>> THEN 0 ELSE Len(Head(t)) + CharLen(Tail(t))

\* total / count: a ZeroDivisionError when count is 0
Divide(total, count) ==
    IF count = 0 THEN [ok |-> FALSE, value |-> 0]
    ELSE [ok |-> TRUE, value |-> Fmt2(total, count)]

\* the average guarded by the presence of any record at all
AverageOfAccess_anydata(ld) ==
    IF AnyLogData(ld)
    THEN Divide(SumSeq([i \in 1..Len(ld.access) |-> ld.access[i].response_time]),
                Len(ld.access))
    ELSE [ok |-> TRUE, value |-> 0]

\* average_response_time of the report head, in hundredths of a millisecond
AverageOfAccess(ld) ==
    IF ld.access # <<>>
    THEN Divide(SumSeq([i \in 1..Len(ld.access) |-> ld.access[i].response_time]),
                Len(ld.access))
    ELSE [ok |-> TRUE, value |-> 0]

\* a row of the security table: minute precision, file name cut at 20 characters
SecurityRow(event) ==
    [time      |-> [event.timestamp EXCEPT !.second = 0],
     user      |-> event.user,
     type      |-> event.type,
     filename  |-> event.filename,
     truncated |-> CharLen(event.filename) > 20]

\* the data of report.html
ReportData(ld, ar) ==
    [total_requests |-> SumValues(ar.time_distribution),
     average_response_time |-> AverageOfAccess(ld).value,
     security_table |->
        [i \in 1..Min(SECURITY_ROWS, Len(ar.security_events)) |->
            SecurityRow(ar.security_events[i])],
     top_handlers  |-> TopN(ar.handlers, TOP_HANDLERS),
     file_types    |-> SortDesc(ar.file_types),
     top_downloads |-> TopN(ar.download_stats, TOP_DOWNLOADS),
     top_users     |-> TopN(ar.users, TOP_USERS),
     avg_response_time |->
        IF ar.response_times # <<>>
        THEN [num |-> SumSeq(ar.response_times), den |-> Len(ar.response_times)]
        ELSE [num |-> 0, den |-> 1],
     max_response_time |->
        IF ar.response_times # <<>> THEN MaxSeq(ar.response_times) ELSE 0,
     min_response_time |->
        IF ar.response_times # <<>> THEN MinSeq(ar.response_times) ELSE 0,
     embeds |-> "full_analysis.html"]

----------------------------------------------------------------------------
(* Input: the lines the log files may hold *)

Ts(h)  == <<"2025", "-", "01", "-", "01", SP, h, ":", "00", ":", "00">>
BadTs  == <<"2025", "-", "13", "-", "01", SP, "10", ":", "00", ":", "00">>
Ip     == <<"10.0.0.1">>

AccessLine(ts, request, status, rt) ==
    <<Br(ts), Br(Ip), Br(<<"abc123">>), Qt(request), Bare(<<status>>), Ms(rt),
      Qt(<<"Mozilla/5.0">>)>>

TextLine(ts, level, message, context) ==
    <<Br(ts), Br(<<level>>), Br(<<"app">>), Br(Ip), Br(<<"-">>), Txt(message),
      Br(context)>>

UploadCtx == <<"path", "=", "/", "upload">>
NoCtx     == <<"-">>
UserCtx   == <<"user", "=", "BOB">>

A_upper   == AccessLine(Ts("10"), <<"GET", SP, "/", "download", "/", "report", ".", "PDF">>,
                        "200", <<"12", ".", "50">>)
A_lower   == AccessLine(Ts("23"), <<"GET", SP, "/", "download", "/", "report", ".", "pdf">>,
                        "404", <<"03">>)
A_nodot   == AccessLine(Ts("10"), <<"POST", SP, "/", "download", "/", "readme">>,
                        "200", <<"12", ".", "50">>)
A_query   == AccessLine(Ts("11"), <<"GET", SP, "/", "index", "?", "page", "=", "01">>,
                        "200", <<"50">>)
A_index   == AccessLine(Ts("11"), <<"GET", SP, "/", "index">>, "200", <<"03">>)
A_badts   == AccessLine(BadTs, <<"GET", SP, "/", "index">>, "200", <<"03">>)
A_badrt   == AccessLine(Ts("10"), <<"GET", SP, "/", "index">>, "200", <<"-">>)
A_noreq   == AccessLine(Ts("10"), <<>>, "200", <<"03">>)

P_event   == TextLine(Ts("10"), "ERROR",
                 <<YONGHU, SP, "ALICE", SP, SHANGCHUAN, SP, "virus", ".", "exe", SP,
                   SHIBAI, SP, GAOWEI_LEIXING>>, UploadCtx)
P_event2  == TextLine(Ts("11"), "ERROR",
                 <<YONGHU, SP, "CAROL", SP, SHANGCHUAN, SP, "run", ".", "bat", SP,
                   SHIBAI, SP, GAOWEI_LEIXING>>, NoCtx)
P_login   == TextLine(Ts("11"), "INFO", <<YONGHU, SP, "BOB", SP, "denglu">>, NoCtx)
P_last    == TextLine(Ts("12"), "ERROR",
                 <<GAOWEI_LEIXING, SP, SHANGCHUAN, SP, "run", ".", "bat", SP, SHIBAI, SP,
                   YONGHU, SP, "BOB">>, UserCtx)
P_info    == TextLine(Ts("12"), "INFO",
                 <<YONGHU, SP, "BOB", SP, SHANGCHUAN, SP, "virus", ".", "exe", SP,
                   SHIBAI, SP, GAOWEI_LEIXING>>, UploadCtx)
P_plain   == TextLine(Ts("13"), "ERROR",
                 <<YONGHU, SP, "ALICE", SP, SHANGCHUAN, SP, "a", ".", "txt", SP, SHIBAI>>,
                 <<"path", "=">>)
P_nofile  == TextLine(Ts("13"), "ERROR",
                 <<YONGHU, SP, "ALICE", SP, GAOWEI_LEIXING>>, NoCtx)
P_nouser  == TextLine(Ts("13"), "ERROR",
                 <<SHANGCHUAN, SP, "x", ".", "exe", SP, SHIBAI, SP, GAOWEI_LEIXING>>, NoCtx)
P_badts   == TextLine(BadTs, "INFO", <<YONGHU, SP, "BOB", SP, "denglu">>, NoCtx)

E_event   == TextLine(Ts("23"), "ERROR",
                 <<YONGHU, SP, "EVE", SP, SHANGCHUAN, SP, "setup", SP, SHIBAI, SP,
                   GAOWEI_LEIXING>>, UploadCtx)
E_plain   == TextLine(Ts("11"), "ERROR", <<"disk", SP, "full">>,
                 <<"path", "=", "/", "download">>)
E_cut     == <<Br(Ts("11")), Br(<<"ERROR">>)>>

AccessLines ==
    {A_upper, A_lower, A_nodot, A_query, A_index, A_badts, A_badrt, A_noreq, P_login}
ApplicationLines ==
    {P_event, P_event2, P_login, P_last, P_info, P_plain, P_nofile, P_nouser, P_badts, A_upper}
ErrorLines == {E_event, E_plain, E_cut}

SeqsUpTo(S, n) == UNION { [1..k -> S] : k \in 0..n }

File(exists, lines) == [exists |-> exists, lines |-> lines]

----------------------------------------------------------------------------
(* The /logs request: log_analysis in src/app.py *)

\* the request and its analyzer before the first file is opened
Fresh ==
    /\ pc = "parse"
    /\ fidx = 1
    /\ pos = 0
    /\ log_data = NewLogData
    /\ analysis_result = NewAnalysisResult
    /\ logged = <<>>
    /\ web = [chart |-> Absent, report |-> Absent]
    /\ response = [status |-> 0, body |-> Absent]

\* no server run with several requests is modelled
NoRuns == reqs = <<>>

\* no login is modelled
NoAuth == db_users = <<>> /\ now = 0 /\ auth_result = <<>> /\ auth_calls = 0

\* no call of the surrounding parts is modelled
NoPager == [called |-> FALSE, current |-> 0, total_pages |-> 0, margin |-> 0,
            result |-> <<>>]

NoDbq == [pc |-> "none", select |-> FALSE, max_retries |-> 0, retries |-> 0,
          tries |-> <<>>, result |-> [kind |-> "none", value |-> 0], exc |-> "",
          logging |-> <<>>]

NoSaved == [called |-> FALSE, raised |-> "", filename |-> <<>>, stored |-> <<>>]

NoSched == [interval |-> 0, main |-> "none", thread |-> "none", stop_event |-> FALSE,
            passed |-> FALSE, cutoff |-> 0]

NoCalls == [thread |-> <<>>, wrong |-> 0]

NoSys ==
    /\ pager = NoPager
    /\ dbq = NoDbq
    /\ uploads = {}
    /\ saved = NoSaved
    /\ sched = NoSched
    /\ calls = NoCalls

Init ==
    /\ NoRuns /\ NoAuth /\ NoSys
    /\ \E a \in SeqsUpTo(AccessLines, MaxLines) :
       \E p \in SeqsUpTo(ApplicationLines, MaxLines - Len(a)) :
       \E e \in SeqsUpTo(ErrorLines, MaxLines - Len(a) - Len(p)) :
       \E xa \in {TRUE, a # <<>>}, xp \in {TRUE, p # <<>>}, xe \in {TRUE, e # <<>>} :
            files = <<File(xa, a), File(xp, p), File(xe, e)>>
    /\ Fresh

\* Input of the ranking runs: one log file whose lines count keys 1..n, each
\* once and in that order, followed by lines that count some of them again
KeyLine(kind, i) ==
    CASE kind = 1 ->
            AccessLine(Ts("10"),
                <<"GET", SP, "/", "download", "/", "f", ToString(i), ".", "pdf">>,
                "200", <<"03">>)
      [] kind = 2 ->
            TextLine(Ts("10"), "INFO", <<YONGHU, SP, "u", ToString(i), SP, "denglu">>, NoCtx)
      [] kind = 3 ->
            TextLine(Ts("10"), "ERROR", <<"disk", SP, "full">>,
                <<"path", "=", "/", "h", ToString(i)>>)

\* the most keys the ranking fed by file kind has to cut: one more than it keeps
KeysOf(kind) ==
    CASE kind = 1 -> TOP_DOWNLOADS + 1
      [] kind = 2 -> TOP_USERS + 1
      [] kind = 3 -> TOP_HANDLERS + 1

KeyFile(kind, n, again) ==
    [i \in 1..(n + Len(again)) |-> KeyLine(kind, IF i <= n THEN i ELSE again[i - n])]

InitTop ==
    /\ NoRuns /\ NoAuth /\ NoSys
    /\ \E kind \in 1..3 :
       \E n \in 0..KeysOf(kind) :
       \E again \in SeqsUpTo(1..n, MaxExtra) :
            /\ \A i \in 1..(Len(again) - 1) : again[i] <= again[i + 1]
            /\ files = [i \in 1..3 |->
                            IF i = kind THEN File(TRUE, KeyFile(kind, n, again))
                            ELSE File(FALSE, <<>>)]
    /\ Fresh

Analyzer == [log_data |-> log_data, analysis_result |-> analysis_result]

\* The analyzer after generate_visualizations.  Every read of the stage goes
\* through .items(), .keys(), .values(), sorted(), dict() or a slice, which
\* build new objects; the extension tally is a defaultdict of its own
Visualized(a) == a

\* generate_report reading file_types['unknown'] of the defaultdict, which
\* creates the key
Reported_subscript(a) ==
    [a EXCEPT !.analysis_result.file_types =
        IF HasKey(@, <<"unknown">>) THEN @ ELSE Append(@, [k |-> <<"unknown">>, v |-> 0])]

\* The analyzer after generate_report: sum() over values, sorted() over
\* items, a [:5] slice of security_events, max/min/sum of response_times
Reported(a) == a

\* the except clause: log the error, abort(500)
Abort500(exc) ==
    /\ pc' = "done"
    /\ logged' = Append(logged, [level |-> "ERROR", what |-> "analysis failed",
                                 about |-> exc])
    /\ response' = [status |-> 500, body |-> Absent]

\* one iteration of "for line in f": r is what the parser makes of the line,
\* a the analyzer after a successful call
LineStep(r, a) ==
    /\ pos' = pos + 1
    /\ UNCHANGED <<files, fidx, web, runVars, authVars, sysVars>>
    /\ IF r.st = "raise"
       THEN /\ Abort500(r.exc)
            /\ UNCHANGED <<log_data, analysis_result>>
       ELSE /\ log_data' = IF r.st = "ok" THEN a.log_data ELSE log_data
            /\ analysis_result' =
                    IF r.st = "ok" THEN a.analysis_result ELSE analysis_result
            /\ UNCHANGED <<pc, logged, response>>

Reading(i) ==
    /\ pc = "parse"
    /\ fidx = i
    /\ files[i].exists
    /\ pos < Len(files[i].lines)

parse_access_log ==
    /\ Reading(1)
    /\ LET r == AccessEntry(files[1].lines[pos + 1])
       IN  LineStep(r, StoreAccess(Analyzer, r.entry))

parse_application_log ==
    /\ Reading(2)
    /\ LET r == TextEntry(files[2].lines[pos + 1], "application")
       IN  LineStep(r, StoreApplication(Analyzer, r.entry))

parse_error_log ==
    /\ Reading(3)
    /\ LET r == TextEntry(files[3].lines[pos + 1], "error")
       IN  LineStep(r, StoreError(Analyzer, r.entry))

\* on to the next file, or to the analysis after the last one
NextFile ==
    /\ pos' = 0
    /\ fidx' = fidx + 1
    /\ pc' = IF fidx < Len(LogFiles) THEN "parse" ELSE "analyze"

\* end of "with open(...)": the file is read to its end
FileParsed ==
    /\ pc = "parse"
    /\ files[fidx].exists
    /\ pos = Len(files[fidx].lines)
    /\ NextFile
    /\ UNCHANGED <<files, log_data, analysis_result, logged, web, response, runVars, authVars, sysVars>>

\* the file opened without asking whether it exists
FileMissing_fatal ==
    /\ pc = "parse"
    /\ ~files[fidx].exists
    /\ Abort500("FileNotFoundError")
    /\ UNCHANGED <<files, fidx, pos, log_data, analysis_result, web, runVars, authVars, sysVars>>

\* file_path.exists() is false: a warning, nothing else
FileMissing ==
    /\ pc = "parse"
    /\ ~files[fidx].exists
    /\ logged' = Append(logged, [level |-> "WARNING", what |-> "file missing",
                                 about |-> LogFiles[fidx]])
    /\ NextFile
    /\ UNCHANGED <<files, log_data, analysis_result, web, response, runVars, authVars, sysVars>>

analyze_logs ==
    /\ pc = "analyze"
    /\ analysis_result' = AnalyzeLogs(log_data, analysis_result)
    /\ pc' = "visualize"
    /\ UNCHANGED <<files, fidx, pos, log_data, logged, web, response, runVars, authVars, sysVars>>

generate_visualizations ==
    /\ pc = "visualize"
    /\ IF AnyLogData(log_data)
       THEN /\ web' = [web EXCEPT !.chart =
                          [present |-> TRUE, data |-> ChartData(analysis_result)]]
            /\ UNCHANGED logged
       ELSE /\ logged' = Append(logged, [level |-> "PRINT", what |-> "no log data",
                                         about |-> "full_analysis.html"])
            /\ UNCHANGED web
    /\ pc' = "report"
    /\ log_data' = Visualized(Analyzer).log_data
    /\ analysis_result' = Visualized(Analyzer).analysis_result
    /\ UNCHANGED <<files, fidx, pos, response, runVars, authVars, sysVars>>

generate_report ==
    /\ pc = "report"
    /\ IF AverageOfAccess(log_data).ok
       THEN /\ web' = [web EXCEPT !.report =
                          [present |-> TRUE,
                           data |-> ReportData(log_data, analysis_result)]]
            /\ pc' = "respond"
            /\ UNCHANGED <<logged, response>>
       ELSE /\ Abort500("ZeroDivisionError")
            /\ UNCHANGED web
    /\ log_data' = Reported(Analyzer).log_data
    /\ analysis_result' = Reported(Analyzer).analysis_result
    /\ UNCHANGED <<files, fidx, pos, runVars, authVars, sysVars>>

\* send_from_directory(web_dir, 'report.html')
send_report ==
    /\ pc = "respond"
    /\ response' = [status |-> 200, body |-> web.report]
    /\ pc' = "done"
    /\ UNCHANGED <<files, fidx, pos, log_data, analysis_result, logged, web, runVars, authVars, sysVars>>

Next ==
    \/ parse_access_log
    \/ parse_application_log
    \/ parse_error_log
    \/ FileParsed
    \/ FileMissing
    \/ analyze_logs
    \/ generate_visualizations
    \/ generate_report
    \/ send_report

Spec == Init /\ [][Next]_vars

\* the runs over the ranking inputs
SpecTop == InitTop /\ [][Next]_vars

----------------------------------------------------------------------------
(* Properties *)

PatternOf(i) == IF i = 1 THEN AccessPattern ELSE ApplicationPattern

\* what the parser of file i makes of a line
Outcome(i, line) == IF i = 1 THEN AccessEntry(line) ELSE TextEntry(line, LogTypes[i])

WellFormed(i, line)  == Outcome(i, line).st = "ok"
NonMatching(i, line) == ~ReMatch(PatternOf(i), line)
Raising(i, line)     == Outcome(i, line).st = "raise"

\* number of lines of file i handed to its parser so far
Consumed(i) ==
    IF fidx > i THEN Len(files[i].lines) ELSE IF fidx = i THEN pos ELSE 0

Records(i) == log_data[LogTypes[i]]

WellFormedIn(i, n) == { j \in 1..n : WellFormed(i, files[i].lines[j]) }

NoRaisingLine ==
    \A i \in 1..3 : \A j \in 1..Len(files[i].lines) : ~Raising(i, files[i].lines[j])

Warnings(i) ==
    { k \in 1..Len(logged) : logged[k].level = "WARNING" /\ logged[k].about = LogFiles[i] }

Completed == pc = "done" /\ response.status = 200 /\ response.body.present

\* the records of a category are its well-formed lines consumed so far
C1_Count ==
    \A i \in 1..3 :
        (\A j \in 1..Consumed(i) :
            WellFormed(i, files[i].lines[j]) \/ NonMatching(i, files[i].lines[j]))
        => Len(Records(i)) = Cardinality(WellFormedIn(i, Consumed(i)))

\* the step that consumes a non-matching line
C1_Step ==
    (/\ pc = "parse" /\ fidx <= 3 /\ files[fidx].exists
     /\ pos < Len(files[fidx].lines)
     /\ NonMatching(fidx, files[fidx].lines[pos + 1]))
    => /\ log_data' = log_data
       /\ analysis_result' = analysis_result
       /\ pc' = "parse"
       /\ logged' = logged
       /\ response' = response

\* C1: a line off its category's pattern adds no record, raises nothing and
\* leaves log_data and analysis_result as they were; after any mix of N
\* well-formed and M non-matching lines the category holds exactly N records.
C1_ParserSkipRule == []C1_Count /\ [][C1_Step]_vars

C1_Witness ==
    \E i \in 1..3 :
        /\ Consumed(i) = 2
        /\ \E j, k \in 1..2 : /\ WellFormed(i, files[i].lines[j])
                              /\ NonMatching(i, files[i].lines[k])
        /\ Len(Records(i)) = 1

\* the line matches the layout and its timestamp does not parse
TimestampFault(i, line) == ReMatch(PatternOf(i), line) /\ ~Strptime(line[1].v).ok

OnlyTimestampFaults ==
    \A i \in 1..3 : \A j \in 1..Len(files[i].lines) :
        Raising(i, files[i].lines[j]) => TimestampFault(i, files[i].lines[j])

\* C2: a line of the right layout whose timestamp is no valid
\* 'YYYY-MM-DD HH:MM:SS' value is skipped alone: the other lines and files are
\* still parsed and the run completes with a report.
C2_MalformedTimestampSkipped ==
    (pc = "done" /\ OnlyTimestampFaults)
    => /\ Completed
       /\ \A i \in 1..3 :
            Len(Records(i)) = Cardinality(WellFormedIn(i, Len(files[i].lines)))

\* C3: a missing log file counts as zero lines and is warned about; the files
\* that exist are still parsed and the run completes without a fatal error.
C3_MissingFileTolerated ==
    /\ \A i \in 1..3 :
        /\ (~files[i].exists /\ fidx > i)
            => Records(i) = <<>> /\ Cardinality(Warnings(i)) = 1
        /\ files[i].exists => Warnings(i) = {}
    /\ (pc = "done" /\ NoRaisingLine)
        => /\ Completed
           /\ \A i \in 1..3 :
                Len(Records(i)) = Cardinality(WellFormedIn(i, Len(files[i].lines)))

C3_Witness ==
    /\ Completed
    /\ \E i, j \in 1..3 : /\ ~files[i].exists
                          /\ Cardinality(Warnings(i)) = 1
                          /\ files[j].exists /\ Len(Records(j)) >= 1

\* the analysis has run
Analyzed == pc \in {"visualize", "report", "respond"} \/ Completed

\* the analyzer after feeding lines to the parser of file i
Store(i, a, e) ==
    CASE i = 1 -> StoreAccess(a, e)
      [] i = 2 -> StoreApplication(a, e)
      [] i = 3 -> StoreError(a, e)

RECURSIVE FeedLines(_, _, _)
FeedLines(a, i, lines) ==
    IF lines = <<>> THEN a
    ELSE LET r == Outcome(i, Head(lines))
         IN  FeedLines(IF r.st = "ok" THEN Store(i, a, r.entry) ELSE a, i, Tail(lines))

\* the snapshot a fresh analyzer computes from three line sequences
Snapshot(f) ==
    LET a == FeedLines(FeedLines(FeedLines(NewAnalyzer, 1, f[1]), 2, f[2]), 3, f[3])
    IN  AnalyzeLogs(a.log_data, a.analysis_result)

Perms(n) == { f \in [1..n -> 1..n] : \A a, b \in 1..n : a # b => f[a] # f[b] }

Permute(lines, f) == [i \in 1..Len(lines) |-> lines[f[i]]]

\* a dict as the mapping it is, whatever the order of insertion
AsMap(d) == { <<d[i].k, d[i].v>> : i \in 1..Len(d) }

CountProjections(ar) ==
    [time_distribution |-> AsMap(ar.time_distribution),
     request_types     |-> AsMap(ar.request_types),
     status_codes      |-> AsMap(ar.status_codes),
     ip_activities     |-> AsMap(ar.ip_activities),
     log_levels        |-> AsMap(ar.log_levels),
     handlers          |-> AsMap(ar.handlers),
     protocols         |-> AsMap(ar.protocols),
     file_types        |-> AsMap(ar.file_types),
     users             |-> AsMap(ar.users),
     download_stats    |-> AsMap(ar.download_stats)]

Reordered(f1, f2, f3) ==
    Snapshot(<<Permute(files[1].lines, f1), Permute(files[2].lines, f2),
               Permute(files[3].lines, f3)>>)

\* C4: whatever the order of the lines within each category, every
\* count-valued projection of the snapshot has the same keys and counts.
C4_OrderIndependentCounts ==
    Analyzed =>
        \A f1 \in Perms(Len(files[1].lines)) :
        \A f2 \in Perms(Len(files[2].lines)) :
        \A f3 \in Perms(Len(files[3].lines)) :
            CountProjections(Reordered(f1, f2, f3)) = CountProjections(analysis_result)

C4_Witness ==
    /\ Analyzed
    /\ \E i \in 1..3 : \E f \in Perms(Len(files[i].lines)) :
        LET id == [k \in 1..3 |-> [j \in 1..Len(files[k].lines) |-> j]]
            g  == [id EXCEPT ![i] = f]
        IN  Reordered(g[1], g[2], g[3]).time_distribution
                # analysis_result.time_distribution

\* the response times of the well-formed access lines, in file order
RECURSIVE TimesInOrder(_)
TimesInOrder(lines) ==
    IF lines = <<>> THEN <<>>
    ELSE (IF WellFormed(1, Head(lines))
          THEN <<ToFloat(Head(lines)[6].v).value>> ELSE <<>>)
         \o TimesInOrder(Tail(lines))

\* the security events of the well-formed lines of file i, in file order
RECURSIVE EventsInOrder(_, _)
EventsInOrder(i, lines) ==
    IF lines = <<>> THEN <<>>
    ELSE (IF WellFormed(i, Head(lines))
          THEN SecurityEvent(Head(lines)[2].v, Head(lines)[6].v,
                             Strptime(Head(lines)[1].v).value)
          ELSE <<>>)
         \o EventsInOrder(i, Tail(lines))

\* C5: response_times holds one entry per access record in the order the
\* access lines were fed; security_events lists the events in the order of
\* their lines in the log file (application.log before error.log).
C5_FileOrderKept ==
    /\ Len(analysis_result.response_times) = Len(log_data.access)
    /\ \A j \in 1..Len(log_data.access) :
            analysis_result.response_times[j] = log_data.access[j].response_time
    /\ (\A j \in 1..Consumed(1) : ~Raising(1, files[1].lines[j]))
        => analysis_result.response_times
                = TimesInOrder(SubSeq(files[1].lines, 1, Consumed(1)))
    /\ Analyzed
        => analysis_result.security_events
                = EventsInOrder(2, files[2].lines) \o EventsInOrder(3, files[3].lines)
    /\ ~Analyzed => analysis_result.security_events = <<>>

C5_Witness ==
    /\ Analyzed
    /\ Len(analysis_result.security_events) = 2
    /\ analysis_result.security_events[1] # analysis_result.security_events[2]
    /\ log_data.error # <<>>

\* C6: with no record parsed in any category, after analyze_logs every
\* mapping projection and both sequences are empty, and total requests,
\* average, maximal and minimal response time of the report are 0.
C6_EmptySnapshot ==
    (Analyzed /\ ~AnyLogData(log_data)) =>
        /\ analysis_result = NewAnalysisResult
        /\ \A name \in DOMAIN analysis_result : analysis_result[name] = <<>>
        /\ web.report.present =>
            /\ web.report.data.total_requests = 0
            /\ web.report.data.average_response_time = 0
            /\ web.report.data.avg_response_time.num = 0
            /\ web.report.data.max_response_time = 0
            /\ web.report.data.min_response_time = 0

C6_Witness ==
    /\ Completed
    /\ ~AnyLogData(log_data)
    /\ web.report.data.total_requests = 0
    /\ \E i \in 1..3 : files[i].lines # <<>>

\* position of a key in a dict
PosOf(d, key) == CHOOSE i \in 1..Len(d) : d[i].k = key

\* list ranks the items of dict proj, keeping at most n of them
Ranked(list, proj, n) ==
    /\ Len(list) <= n
    /\ \A i \in 1..Len(list) : \E j \in 1..Len(proj) : list[i] = proj[j]
    /\ \A i, j \in 1..Len(list) : i < j =>
            /\ list[i].k # list[j].k
            /\ list[i].v >= list[j].v
            /\ list[i].v = list[j].v => PosOf(proj, list[i].k) < PosOf(proj, list[j].k)
    /\ \A j \in 1..Len(proj) :
            (\A i \in 1..Len(list) : list[i].k # proj[j].k)
            => /\ Len(list) = n
               /\ \A i \in 1..Len(list) : list[i].v >= proj[j].v

\* C7: top_users holds at most 10 entries, top_downloads and top_handlers at
\* most 5; each list is in non-increasing count order, holds the keys of the
\* highest counts, and keeps keys of equal count in their order of insertion.
C7_TopLists ==
    /\ web.report.present =>
        /\ Ranked(web.report.data.top_users, analysis_result.users, 10)
        /\ Ranked(web.report.data.top_downloads, analysis_result.download_stats, 5)
        /\ Ranked(web.report.data.top_handlers, analysis_result.handlers, 5)
    /\ web.chart.present =>
        /\ Ranked(web.chart.data.top_users, analysis_result.users, 10)
        /\ Ranked(web.chart.data.top_downloads, analysis_result.download_stats, 5)

C7_Witness ==
    /\ web.report.present
    /\ Len(analysis_result.users) > 10
    /\ Len(web.report.data.top_users) = 10
    /\ web.report.data.top_users[1].k # analysis_result.users[1].k
    /\ web.report.data.top_users[1].v > web.report.data.top_users[2].v
    /\ web.report.data.top_users[2].v = web.report.data.top_users[3].v

\* lower case of the atoms that have upper-case letters
LowerTable ==
    ("PDF" :> "pdf") @@ ("EXE" :> "exe") @@ ("GET" :> "get") @@ ("POST" :> "post") @@ ("ALICE" :> "alice")
    @@ ("BOB" :> "bob") @@ ("CAROL" :> "carol") @@ ("EVE" :> "eve")

Lower(a) == IF a \in DOMAIN LowerTable THEN LowerTable[a] ELSE a

LowerText(t) == [i \in 1..Len(t) |-> Lower(t[i])]

\* the access records counted under extension ext when extensions are lowered
DownloadsOfType(ext) ==
    { j \in 1..Len(log_data.access) :
        /\ Contains(log_data.access[j].path, "download")
        /\ LET name == DownloadName(log_data.access[j].path)
           IN  ext = IF Contains(name, ".") THEN LowerText(AfterLast(name, "."))
                     ELSE <<"unknown">> }

\* C8: file_types is keyed by the lowercased extension: download paths that
\* differ only in the case of the extension are counted under one key, a
\* download path without '.' under 'unknown'.
C8_LowercasedExtensions ==
    Analyzed =>
        \A ext \in Keys(analysis_result.file_types) \cup {<<"pdf">>, <<"unknown">>} :
            Get(analysis_result.file_types, ext) = Cardinality(DownloadsOfType(ext))

\* a blank-terminated name follows YONGHU in message m
UserNamed(m, u) ==
    \E i \in 1..Len(m) : \E j \in (i + 2)..Len(m) :
        /\ m[i] = YONGHU /\ m[i + 1] = SP /\ m[j] = SP
        /\ u = SubSeq(m, i + 2, j - 1)
        /\ ~Contains(u, SP)

\* message m holds "SHANGCHUAN <f> SHIBAI"
FileNamed(m, f) ==
    \E i \in 1..Len(m) : \E j \in (i + 2)..(Len(m) - 1) :
        /\ m[i] = SHANGCHUAN /\ m[i + 1] = SP
        /\ m[j] = SP /\ m[j + 1] = SHIBAI
        /\ f = SubSeq(m, i + 2, j - 1)

Blocked(e) ==
    /\ e.log_level = <<"ERROR">>
    /\ Contains(e.message, GAOWEI_LEIXING)
    /\ \E i \in 1..Len(e.message) : \E j \in (i + 3)..(Len(e.message) - 1) :
            /\ e.message[i] = SHANGCHUAN /\ e.message[j] = SP
            /\ FileNamed(e.message, SubSeq(e.message, i + 2, j - 1))
    /\ \E i \in 1..Len(e.message) : \E j \in (i + 3)..Len(e.message) :
            /\ e.message[i] = YONGHU /\ e.message[j] = SP
            /\ UserNamed(e.message, SubSeq(e.message, i + 2, j - 1))

RecordsAtHour(h) ==
    Cardinality({ j \in 1..Len(log_data.access) : log_data.access[j].timestamp.hour = h })
    + Cardinality({ j \in 1..Len(log_data.application) :
                        log_data.application[j].timestamp.hour = h })
    + Cardinality({ j \in 1..Len(log_data.error) : log_data.error[j].timestamp.hour = h })

\* C10: the report's total_requests is the sum of time_distribution, which
\* is the number of records parsed in the three categories, each counted
\* once under the hour 0..23 of its timestamp.
C10_TotalRequests ==
    /\ Analyzed =>
        /\ Keys(analysis_result.time_distribution) \subseteq 0..23
        /\ \A h \in 0..23 : Get(analysis_result.time_distribution, h) = RecordsAtHour(h)
        /\ SumValues(analysis_result.time_distribution)
                = Len(log_data.access) + Len(log_data.application) + Len(log_data.error)
    /\ web.report.present =>
        /\ web.report.data.total_requests = SumValues(analysis_result.time_distribution)
        /\ web.report.data.total_requests
                = Len(log_data.access) + Len(log_data.application) + Len(log_data.error)

C10_Witness ==
    /\ Completed
    /\ Len(log_data.access) = 2
    /\ log_data.application = <<>> /\ log_data.error = <<>>
    /\ AsMap(analysis_result.status_codes) = {<<200, 1>>, <<404, 1>>}
    /\ response.body.data.total_requests = 2

\* C11: computing the report never divides by zero: without access records
\* (also when application or error records exist) the average response time
\* is 0.00ms and the maximum and minimum are 0; otherwise the average is the
\* sum of response_times divided by their number.
C11_NoDivisionByZero ==
    /\ \A k \in 1..Len(logged) : logged[k].about # "ZeroDivisionError"
    /\ web.report.present =>
        LET d  == web.report.data
            rt == analysis_result.response_times
        IN  /\ d.avg_response_time.den > 0
            /\ log_data.access = <<>> =>
                /\ d.average_response_time = 0
                /\ d.avg_response_time.num = 0
                /\ d.max_response_time = 0
                /\ d.min_response_time = 0
            /\ log_data.access # <<>> =>
                /\ rt # <<>>
                /\ d.average_response_time = Fmt2(SumSeq(rt), Len(rt))
                /\ d.avg_response_time = [num |-> SumSeq(rt), den |-> Len(rt)]

C11_Witness ==
    /\ Completed
    /\ log_data.access = <<>>
    /\ log_data.application # <<>>
    /\ response.body.data.average_response_time = 0
    /\ response.body.data.total_requests > 0

\* the levels of the application and error records
TextLevels ==
    { log_data.application[j].log_level : j \in 1..Len(log_data.application) }
    \cup { log_data.error[j].log_level : j \in 1..Len(log_data.error) }

\* C12: access records add nothing to log_levels: after analyze_logs its keys
\* are the level strings of the application and error records and its values
\* sum to the number of application plus error records.
C12_NoLevelFromAccess ==
    Analyzed =>
        /\ Keys(analysis_result.log_levels) = TextLevels
        /\ SumValues(analysis_result.log_levels)
                = Len(log_data.application) + Len(log_data.error)

\* the access records whose path holds 'download'
DownloadRecords ==
    { j \in 1..Len(log_data.access) : Contains(log_data.access[j].path, "download") }

LastSegment(j) == AfterLast(log_data.access[j].path, "/")

SegmentExtension(j) ==
    IF Contains(LastSegment(j), ".") THEN AfterLast(LastSegment(j), ".")
    ELSE <<"unknown">>

\* C13: every access record whose path holds 'download' adds one to
\* download_stats[last path segment] and one to file_types[extension of that
\* segment], and no other record touches the two; so both sum to the number
\* of such records.
C13_DownloadTallies ==
    /\ ~Analyzed =>
        analysis_result.download_stats = <<>> /\ analysis_result.file_types = <<>>
    /\ Analyzed =>
        /\ \A name \in Keys(analysis_result.download_stats)
                        \cup { LastSegment(j) : j \in DownloadRecords } :
                Get(analysis_result.download_stats, name)
                    = Cardinality({ j \in DownloadRecords : LastSegment(j) = name })
        /\ \A ext \in Keys(analysis_result.file_types)
                        \cup { SegmentExtension(j) : j \in DownloadRecords } :
                Get(analysis_result.file_types, ext)
                    = Cardinality({ j \in DownloadRecords : SegmentExtension(j) = ext })
        /\ SumValues(analysis_result.file_types) = Cardinality(DownloadRecords)
        /\ SumValues(analysis_result.download_stats) = Cardinality(DownloadRecords)

C13_Witness ==
    /\ Analyzed
    /\ Len(log_data.access) = 2
    /\ Cardinality(DownloadRecords) = 1
    /\ log_data.application = <<>> /\ log_data.error = <<>>
    /\ AsMap(analysis_result.file_types) = {<< <<"pdf">>, 1 >>}
    /\ AsMap(analysis_result.download_stats) = {<< <<"report", ".", "pdf">>, 1 >>}

\* u is the blank-free text after the first "YONGHU " of m, up to the next
\* blank or, when toEnd holds, also up to the end of m
NameAfter(m, u, toEnd) ==
    \E i \in 1..(Len(m) - 1) :
        /\ m[i] = YONGHU /\ m[i + 1] = SP
        /\ \A k \in 1..(i - 1) : ~(m[k] = YONGHU /\ m[k + 1] = SP)
        /\ \E j \in (i + 2)..(Len(m) + 1) :
            /\ IF j <= Len(m) THEN m[j] = SP ELSE toEnd
            /\ u = SubSeq(m, i + 2, j - 1)
            /\ ~Contains(u, SP)

\* the application records that name user u
NamedBy(u, toEnd) ==
    { j \in 1..Len(log_data.application) :
        NameAfter(log_data.application[j].message, u, toEnd) }

NamingRecords(toEnd) ==
    { j \in 1..Len(log_data.application) :
        LET m == log_data.application[j].message
        IN  \E a \in 3..(Len(m) + 1) : \E b \in (a - 1)..Len(m) :
                /\ m[a - 2] = YONGHU
                /\ NameAfter(m, SubSeq(m, a, b), toEnd) }

UsersTally(toEnd) ==
    /\ \A u \in Keys(analysis_result.users) :
            Get(analysis_result.users, u) = Cardinality(NamedBy(u, toEnd))
    /\ SumValues(analysis_result.users) = Cardinality(NamingRecords(toEnd))

\* C14 as stated: for every application record whose message holds YONGHU the
\* whitespace-delimited token after it is tallied once in users, also when
\* it is the last token of the message; other records add nothing.
C14_UserTokenTallied == UsersTally(TRUE)

\* C14 as amended: the token after YONGHU is tallied once when a blank follows
\* it; a name that ends the message is not tallied; records without YONGHU,
\* error records and access records add nothing to users.
C14_UserBeforeBlank == UsersTally(FALSE)

C14_Witness ==
    /\ Analyzed
    /\ Len(log_data.application) = 2
    /\ \A j \in 1..2 : Contains(log_data.application[j].message, YONGHU)
    /\ \E j \in 1..2 :
            LET m == log_data.application[j].message
            IN  m[Len(m)] = "BOB" /\ m[Len(m) - 2] = YONGHU
    /\ AsMap(analysis_result.users) = {<< <<"BOB">>, 1 >>}

\* the access line matches the layout, its timestamp parses, and its response
\* time is no number or its request string is empty
FieldFault(line) ==
    /\ ReMatch(AccessPattern, line)
    /\ Strptime(line[1].v).ok
    /\ ~ToFloat(line[6].v).ok \/ SplitWs(line[4].v) = <<>>

OnlyFieldFaults ==
    /\ \A j \in 1..Len(files[1].lines) :
            Raising(1, files[1].lines[j]) => FieldFault(files[1].lines[j])
    /\ \A i \in 2..3 : \A j \in 1..Len(files[i].lines) : ~Raising(i, files[i].lines[j])

\* C15: an access line of the right layout with a non-numeric response time
\* or an empty request string is skipped alone, and the run still completes
\* with a report.
C15_FieldFaultSkipped ==
    (pc = "done" /\ OnlyFieldFaults)
    => /\ Completed
       /\ \A k \in 1..Len(logged) : logged[k].level # "ERROR"
       /\ Len(log_data.access) = Cardinality(WellFormedIn(1, Len(files[1].lines)))

\* C17: every run that completes has produced both artifacts, the chart page
\* and the report that embeds it, both from the snapshot of that run, also
\* when no record was parsed in any category.
C17_BothArtifacts ==
    Completed =>
        /\ web.report.present
        /\ web.report.data = ReportData(log_data, analysis_result)
        /\ web.report.data.embeds = "full_analysis.html"
        /\ web.chart.present
        /\ web.chart.data = ChartData(analysis_result)

\* C26: no stage mutates upstream data: analyze_logs leaves log_data as it
\* is, and generate_visualizations and generate_report leave both log_data and
\* analysis_result as they are (no key added, nothing reordered).
C26_Step ==
    /\ pc = "analyze" => log_data' = log_data
    /\ pc \in {"visualize", "report"} =>
            /\ log_data' = log_data
            /\ analysis_result' = analysis_result

UpToQuery(path) ==
    CHOOSE t \in { SubSeq(path, 1, k) : k \in 0..Len(path) } :
        /\ ~Contains(t, "?")
        /\ Len(t) = Len(path) \/ path[Len(t) + 1] = "?"

\* the response times of the records of path p, in the order of the records
RECURSIVE TimesOf(_, _)
TimesOf(entries, p) ==
    IF entries = <<>> THEN <<>>
    ELSE LET rest == TimesOf(SubSeq(entries, 1, Len(entries) - 1), p)
             last == entries[Len(entries)]
         IN  IF UpToQuery(last.path) = p THEN Append(rest, last.response_time)
             ELSE rest

\* C27: interface_response_times partitions response_times by the path
\* without its query string: after any sequence of parse_access_log calls the
\* list of every path p is exactly the response times of the access records
\* whose path up to the first '?' is p, in arrival order; no other key exists,
\* and the lengths of the lists sum to len(response_times).
C27_InterfaceTimes ==
    LET irt   == analysis_result.interface_response_times
        acc   == log_data.access
        paths == { UpToQuery(acc[i].path) : i \in 1..Len(acc) }
    IN  /\ Keys(irt) = paths
        /\ \A i, j \in 1..Len(irt) : irt[i].k = irt[j].k => i = j
        /\ \A p \in paths : Get(irt, p) = TimesOf(acc, p)
        /\ SumSeq([i \in 1..Len(irt) |-> Len(irt[i].v)])
                = Len(analysis_result.response_times)

\* one list holds the times of two records that differ in their query string
C27_Witness ==
    /\ Len(log_data.access) = 2
    /\ log_data.access[1].path # log_data.access[2].path
    /\ Contains(log_data.access[1].path, "?")
    /\ log_data.access[1].response_time # log_data.access[2].response_time
    /\ Len(analysis_result.interface_response_times) = 1
    /\ analysis_result.interface_response_times[1].v
            = <<log_data.access[1].response_time, log_data.access[2].response_time>>

\* C30: user_actions is empty in every reachable state of an analyzer:
\* whatever lines the three parsers are fed and once analyze_logs has run, no
\* user_actions entry exists, since 'user=' is looked for in access records
\* only and an access record has no context.
C30_NoUserActions == analysis_result.user_actions = <<>>

\* the analysis has run over an access record and over an application record
\* whose context names a user
C30_Witness ==
    /\ Analyzed
    /\ log_data.access # <<>>
    /\ \E i \in 1..Len(log_data.application) :
            /\ HasKeyEq(log_data.application[i].context, "user")
            /\ SearchKeyValue(log_data.application[i].context, "user").found

----------------------------------------------------------------------------
(* Several /logs requests of one server run: app.run serves each request in *)
(* a thread of its own, all of them over the same logs/ and web/            *)

Requests == 1..NumRequests

RunAccessLines      == {A_lower, A_badrt}
RunApplicationLines == {P_login}

\* three line sequences parsed by one new analyzer
Parsed(f) == FeedLines(FeedLines(FeedLines(NewAnalyzer, 1, f[1]), 2, f[2]), 3, f[3])

\* a file of web/: its content, the request that wrote it (0: a run before
\* this server run) and whether the write got to its end
Artifact(by, whole, data) == [present |-> TRUE, by |-> by, whole |-> whole, data |-> data]

\* web/ as a complete run over one download line left it
EarlierWeb ==
    LET a  == Parsed(<< <<A_upper>>, <<>>, <<>> >>)
        ar == AnalyzeLogs(a.log_data, a.analysis_result)
    IN  [chart  |-> Artifact(0, TRUE, ChartData(ar)),
         report |-> Artifact(0, TRUE, ReportData(a.log_data, ar))]

NoResponse == [status |-> 0, body |-> Absent]

\* a request that has not arrived; after is set on arrival: the requests
\* that had ended by then
IdleRequest ==
    [pc |-> "idle", fidx |-> 0, pos |-> 0, analyzer |-> NewAnalyzer,
     response |-> NoResponse, exc |-> "", after |-> {}]

InitRuns ==
    /\ NoAuth /\ NoSys
    /\ pc = "none" /\ fidx = 0 /\ pos = 0
    /\ log_data = NewLogData /\ analysis_result = NewAnalysisResult
    /\ response = NoResponse
    /\ \E a \in SeqsUpTo(RunAccessLines, MaxRunLines) :
       \E p \in SeqsUpTo(RunApplicationLines, MaxRunLines - Len(a)) :
            files = <<File(TRUE, a), File(TRUE, p), File(FALSE, <<>>)>>
    /\ web \in {[chart |-> Absent, report |-> Absent], EarlierWeb}
    /\ logged = <<>>
    /\ reqs = [r \in Requests |-> IdleRequest]

\* analyzer = AdvancedLogAnalyzer(), kept in a module-level name that the
\* next request finds set
NewRunAnalyzer_kept(rs, r) ==
    IF \E q \in Requests : rs[q].pc = "done"
    THEN rs[CHOOSE q \in Requests : rs[q].pc = "done"].analyzer
    ELSE NewAnalyzer

\* analyzer = AdvancedLogAnalyzer()
NewRunAnalyzer(rs, r) == NewAnalyzer

\* every request reaching for the analyzer of the first one
OwnAnalyzer_global(rs, r) == rs[1].analyzer

\* the local name analyzer of request r
OwnAnalyzer(rs, r) == rs[r].analyzer

\* the except clause for request q
Aborted(q, exc) ==
    [q EXCEPT !.pc = "done", !.response = [status |-> 500, body |-> Absent],
              !.exc = exc]

ErrorRecord(exc) == [level |-> "ERROR", what |-> "analysis failed", about |-> exc]

\* a request arrives and creates its analyzer
StartRequest(r) ==
    /\ reqs[r].pc = "idle"
    /\ reqs' = [reqs EXCEPT ![r] =
            [pc |-> "parse", fidx |-> 1, pos |-> 0,
             analyzer |-> NewRunAnalyzer(reqs, r),
             response |-> NoResponse, exc |-> "",
             after |-> { q \in Requests : reqs[q].pc = "done" }]]
    /\ UNCHANGED <<files, logged, web, logsVars, authVars, sysVars>>

\* one iteration of "for line in f" of request r
RunLine(r) ==
    /\ reqs[r].pc = "parse"
    /\ files[reqs[r].fidx].exists
    /\ reqs[r].pos < Len(files[reqs[r].fidx].lines)
    /\ LET i   == reqs[r].fidx
           res == Outcome(i, files[i].lines[reqs[r].pos + 1])
           a   == OwnAnalyzer(reqs, r)
       IN  IF res.st = "raise"
           THEN /\ reqs' = [reqs EXCEPT ![r] =
                                Aborted([reqs[r] EXCEPT !.pos = @ + 1], res.exc)]
                /\ logged' = Append(logged, ErrorRecord(res.exc))
           ELSE /\ reqs' = [reqs EXCEPT
                                ![r].pos = @ + 1,
                                ![r].analyzer =
                                    IF res.st = "ok" THEN Store(i, a, res.entry) ELSE a]
                /\ UNCHANGED logged
    /\ UNCHANGED <<files, web, logsVars, authVars, sysVars>>

\* request q on to its next file, or to the analysis after the last one
AtNextFile(q) ==
    [q EXCEPT !.pos = 0, !.fidx = @ + 1,
              !.pc = IF q.fidx < Len(LogFiles) THEN "parse" ELSE "analyze"]

RunFileParsed(r) ==
    /\ reqs[r].pc = "parse"
    /\ files[reqs[r].fidx].exists
    /\ reqs[r].pos = Len(files[reqs[r].fidx].lines)
    /\ reqs' = [reqs EXCEPT ![r] = AtNextFile(reqs[r])]
    /\ UNCHANGED <<files, logged, web, logsVars, authVars, sysVars>>

RunFileMissing(r) ==
    /\ reqs[r].pc = "parse"
    /\ ~files[reqs[r].fidx].exists
    /\ logged' = Append(logged, [level |-> "WARNING", what |-> "file missing",
                                 about |-> LogFiles[reqs[r].fidx]])
    /\ reqs' = [reqs EXCEPT ![r] = AtNextFile(reqs[r])]
    /\ UNCHANGED <<files, web, logsVars, authVars, sysVars>>

RunAnalyze(r) ==
    /\ reqs[r].pc = "analyze"
    /\ LET a == OwnAnalyzer(reqs, r)
       IN  reqs' = [reqs EXCEPT
                ![r].analyzer = [log_data |-> a.log_data,
                                 analysis_result |->
                                    AnalyzeLogs(a.log_data, a.analysis_result)],
                ![r].pc = "visualize"]
    /\ UNCHANGED <<files, logged, web, logsVars, authVars, sysVars>>

\* how writing a file of web/ may end: written; not opened (the file is as
\* it was); opened, so emptied, and the write cut short
WriteOutcomes == {"written", "not opened", "cut short"}

\* the file after a write of data by request r that ends as outcome
Written(old, r, data, outcome) ==
    CASE outcome = "written"    -> Artifact(r, TRUE, data)
      [] outcome = "not opened" -> old
      [] outcome = "cut short"  -> Artifact(r, FALSE, data)

RunVisualize(r) ==
    /\ reqs[r].pc = "visualize"
    /\ LET a == OwnAnalyzer(reqs, r)
       IN  IF AnyLogData(a.log_data)
           THEN \E outcome \in WriteOutcomes :
                /\ web' = [web EXCEPT !.chart =
                            Written(@, r, ChartData(a.analysis_result), outcome)]
                /\ IF outcome = "written"
                   THEN /\ reqs' = [reqs EXCEPT ![r].pc = "report"]
                        /\ UNCHANGED logged
                   ELSE /\ reqs' = [reqs EXCEPT ![r] = Aborted(@, "OSError")]
                        /\ logged' = Append(logged, ErrorRecord("OSError"))
           ELSE /\ logged' = Append(logged, [level |-> "PRINT", what |-> "no log data",
                                             about |-> "full_analysis.html"])
                /\ reqs' = [reqs EXCEPT ![r].pc = "report"]
                /\ UNCHANGED web
    /\ UNCHANGED <<files, logsVars, authVars, sysVars>>

RunReport(r) ==
    /\ reqs[r].pc = "report"
    /\ LET a == OwnAnalyzer(reqs, r)
       IN  \E outcome \in WriteOutcomes :
            /\ web' = [web EXCEPT !.report =
                        Written(@, r, ReportData(a.log_data, a.analysis_result), outcome)]
            /\ IF outcome = "written"
               THEN /\ reqs' = [reqs EXCEPT ![r].pc = "respond"]
                    /\ UNCHANGED logged
               ELSE /\ reqs' = [reqs EXCEPT ![r] = Aborted(@, "OSError")]
                    /\ logged' = Append(logged, ErrorRecord("OSError"))
    /\ UNCHANGED <<files, logsVars, authVars, sysVars>>

\* send_from_directory(web_dir, 'report.html'): the file as it is by now
RunSend(r) ==
    /\ reqs[r].pc = "respond"
    /\ reqs' = [reqs EXCEPT ![r].pc = "done",
                            ![r].response = [status |-> 200, body |-> web.report]]
    /\ UNCHANGED <<files, logged, web, logsVars, authVars, sysVars>>

NextRuns ==
    \E r \in Requests :
        \/ StartRequest(r)
        \/ RunLine(r)
        \/ RunFileParsed(r)
        \/ RunFileMissing(r)
        \/ RunAnalyze(r)
        \/ RunVisualize(r)
        \/ RunReport(r)
        \/ RunSend(r)

SpecRuns == InitRuns /\ [][NextRuns]_vars

\* request r has run analyze_logs
RunAnalyzed(r) ==
    \/ reqs[r].pc \in {"visualize", "report", "respond"}
    \/ reqs[r].pc = "done" /\ (reqs[r].response.status = 200 \/ reqs[r].exc = "OSError")

\* request r ended in the except clause because a write to web/ failed
WriteFailed(r) == reqs[r].pc = "done" /\ reqs[r].exc = "OSError"

\* C16: when writing an artifact fails, the run ends with the fatal error and
\* web/ is not left inconsistent: no file is cut short, and no file of the
\* failed run stands next to the other file from an earlier run.
C16_ArtifactsConsistent ==
    /\ \A r \in Requests : WriteFailed(r) => reqs[r].response.status = 500
    /\ web.chart.present => web.chart.whole
    /\ web.report.present => web.report.whole
    /\ \A r \in Requests :
        WriteFailed(r) =>
            ~(/\ web.chart.present /\ web.report.present
              /\ \/ web.chart.by = r /\ web.report.by \in reqs[r].after \cup {0}
                 \/ web.report.by = r /\ web.chart.by \in reqs[r].after \cup {0})

\* number of lines of file i that request r has handed to its parser
ConsumedBy(r, i) ==
    IF reqs[r].fidx > i THEN Len(files[i].lines)
    ELSE IF reqs[r].fidx = i THEN reqs[r].pos ELSE 0

\* the analyzer of a request that runs alone and has got as far as request r
AloneAt(r) ==
    LET a == Parsed([i \in 1..3 |-> SubSeq(files[i].lines, 1, ConsumedBy(r, i))])
    IN  IF RunAnalyzed(r)
        THEN [log_data |-> a.log_data,
              analysis_result |-> AnalyzeLogs(a.log_data, a.analysis_result)]
        ELSE a

C28_OwnArtifacts ==
    \A r \in Requests :
        (reqs[r].pc = "done" /\ reqs[r].response.status = 200)
            => /\ reqs[r].response.body.present
               /\ reqs[r].response.body.by = r
               /\ reqs[r].response.body.whole
               /\ reqs[r].response.body.data
                    = ReportData(reqs[r].analyzer.log_data,
                                 reqs[r].analyzer.analysis_result)

----------------------------------------------------------------------------
(* Login: AuthManager in src/core/auth.py over table users of mapper/db.py  *)

\* AuthManager(): lock_duration in seconds, max_attempts
LOCK_DURATION == 300
MAX_ATTEMPTS  == 3

MSG_NO_USER  == "yonghu bu cunzai"      \* '用户不存在'
MSG_LOCKED   == "zhanghu yi suoding"    \* '账户已锁定，请{remain_sec}秒后重试'
MSG_WRONG    == "mima cuowu"            \* '密码错误'

\* the user names that log in: one has a row in table users, one has none
Usernames == {"ALICE", "MALLORY"}
Passwords == {"right", "wrong"}

\* column lock_time DATETIME: NULL, or a point in time
NULL        == [kind |-> "NULL", at |-> 0]
DateTime(t) == [kind |-> "datetime", at |-> t]

NoRow == [exists |-> FALSE, password |-> "", attempts |-> 0, lock_time |-> NULL]

\* the row of a registered user: attempts INT DEFAULT 0, lock_time NULL
NewRow(password) ==
    [exists |-> TRUE, password |-> password, attempts |-> 0, lock_time |-> NULL]

NoResult == [username |-> "", password |-> "", valid |-> FALSE, message |-> "",
             remain |-> 0]

\* the clock moves in steps of half a lock duration
ClockStep == LOCK_DURATION \div 2

InitAuth ==
    /\ NoRuns /\ NoSys
    /\ pc = "none" /\ fidx = 0 /\ pos = 0
    /\ log_data = NewLogData /\ analysis_result = NewAnalysisResult
    /\ response = [status |-> 0, body |-> Absent]
    /\ files = <<File(FALSE, <<>>), File(FALSE, <<>>), File(FALSE, <<>>)>>
    /\ web = [chart |-> Absent, report |-> Absent]
    /\ logged = <<>>
    /\ db_users = [u \in Usernames |-> IF u = "ALICE" THEN NewRow("right") ELSE NoRow]
    /\ now = 0
    /\ auth_result = NoResult
    /\ auth_calls = 0

\* _load_user: the row as the DictCursor returns it; a DATETIME column comes
\* back as a datetime object, NULL as None
LoadUser(username) == db_users[username]

\* datetime.fromisoformat(v): a TypeError unless v is a str
FromIsoFormat(v) ==
    IF v.kind = "str" THEN [ok |-> TRUE, at |-> v.at] ELSE [ok |-> FALSE, at |-> 0]

\* _is_locked: any exception makes it answer False
IsLocked(user_data, t) ==
    IF user_data.lock_time.kind # "NULL"
    THEN LET lock_time == FromIsoFormat(user_data.lock_time)
         IN  IF lock_time.ok THEN lock_time.at + LOCK_DURATION > t ELSE FALSE
    ELSE FALSE

\* _remaining_lock_time: any exception makes it answer 0
RemainingLockTime(user_data, t) ==
    LET lock_time == FromIsoFormat(user_data.lock_time)
    IN  IF lock_time.ok /\ lock_time.at + LOCK_DURATION > t
        THEN lock_time.at + LOCK_DURATION - t
        ELSE 0

Result(username, password, valid, message, remain) ==
    [username |-> username, password |-> password, valid |-> valid,
     message |-> message, remain |-> remain]

validate_credentials(username, password) ==
    /\ auth_calls < MaxCalls
    /\ auth_calls' = auth_calls + 1
    /\ LET user_data == LoadUser(username)
       IN  IF ~user_data.exists
           THEN /\ auth_result' = Result(username, password, FALSE, MSG_NO_USER, 0)
                /\ UNCHANGED db_users
           ELSE IF IsLocked(user_data, now)
           THEN /\ auth_result' = Result(username, password, FALSE, MSG_LOCKED,
                                         RemainingLockTime(user_data, now))
                /\ UNCHANGED db_users
           ELSE IF password # user_data.password
           THEN /\ db_users' = [db_users EXCEPT ![username] =
                        IF user_data.attempts + 1 >= MAX_ATTEMPTS
                        THEN [user_data EXCEPT !.lock_time = DateTime(now),
                                               !.attempts = 0]
                        ELSE [user_data EXCEPT !.attempts = @ + 1]]
                /\ auth_result' = Result(username, password, FALSE, MSG_WRONG, 0)
           ELSE /\ db_users' = [db_users EXCEPT ![username] =
                        [user_data EXCEPT !.attempts = 0, !.lock_time = NULL]]
                /\ auth_result' = Result(username, password, TRUE, "", 0)
    /\ UNCHANGED <<now, files, logged, web, logsVars, runVars, sysVars>>

\* time passes
Tick ==
    /\ now < MaxTicks * ClockStep
    /\ now' = now + ClockStep
    /\ UNCHANGED <<db_users, auth_result, auth_calls, files, logged, web, logsVars,
                   runVars, sysVars>>

NextAuth ==
    \/ \E username \in Usernames, password \in Passwords :
            validate_credentials(username, password)
    \/ Tick

SpecAuth == InitAuth /\ [][NextAuth]_vars

\* a call for the registered user, made while max_attempts consecutive wrong
\* passwords lie less than lock_duration seconds back
CallOf(username) == auth_calls' = auth_calls + 1 /\ auth_result'.username = username

LockRunning(username) ==
    /\ db_users[username].lock_time.kind # "NULL"
    /\ now < db_users[username].lock_time.at + LOCK_DURATION

C20_Step ==
    \A username \in Usernames :
        (db_users[username].exists /\ CallOf(username)) =>
            /\ LockRunning(username) =>
                /\ ~auth_result'.valid
                /\ auth_result'.message = MSG_LOCKED
                /\ db_users' = db_users
            /\ (/\ db_users[username].lock_time.kind # "NULL"
                /\ ~LockRunning(username)
                /\ auth_result'.password = db_users[username].password)
                => auth_result'.valid

\* the stored lock time is the time of the max_attempts-th wrong password in
\* a row, and attempts counts the wrong passwords since
C20_Stored ==
    \A username \in Usernames :
        /\ db_users[username].attempts < MAX_ATTEMPTS
        /\ db_users[username].lock_time.kind # "NULL"
            => db_users[username].lock_time.at <= now

\* C20: for an existing user, once max_attempts consecutive calls of
\* validate_credentials have failed with a wrong password, every call made
\* before lock_duration seconds have passed is rejected with the locked
\* message, the correct password included, and leaves attempts and lock_time
\* as stored; after lock_duration the correct password succeeds again.
C20_Lockout == []C20_Stored /\ [][C20_Step]_vars

----------------------------------------------------------------------------
(* The parts around the log analysis: each has a specification of its own   *)

\* no /logs request is modelled
NoLogs ==
    /\ pc = "none" /\ fidx = 0 /\ pos = 0
    /\ log_data = NewLogData /\ analysis_result = NewAnalysisResult
    /\ response = [status |-> 0, body |-> Absent]
    /\ files = <<File(FALSE, <<>>), File(FALSE, <<>>), File(FALSE, <<>>)>>
    /\ web = [chart |-> Absent, report |-> Absent]
    /\ logged = <<>>

nonSys == <<files, logged, web, logsVars, runVars, authVars>>

----------------------------------------------------------------------------
(* Pagination.generate in src/core/utils.py *)

\* largest total_pages and margin of a call
MaxPages  == 10
MaxMargin == 2

\* an item of the navigation list: a page number or the marker '...'
Page(n)  == [ellipsis |-> FALSE, n |-> n]
Ellipsis == [ellipsis |-> TRUE, n |-> 0]

Max(a, b) == IF a >= b THEN a ELSE b

\* list(range(a, b + 1))
PageRange(a, b) == [i \in 1..(b - a + 1) |-> Page(a + i - 1)]

\* [x for x in pages if x not in ('...', 0)]
RECURSIVE FilterPages(_)
FilterPages(pages) ==
    IF pages = <<>> THEN <<>>
    ELSE IF Head(pages).ellipsis \/ Head(pages).n = 0
         THEN FilterPages(Tail(pages))
         ELSE <<Head(pages)>> \o FilterPages(Tail(pages))

\* Pagination.generate(current, total_pages, margin)
Generate(current, total_pages, margin) ==
    IF total_pages <= 5 THEN PageRange(1, total_pages)
    ELSE LET left  == Max(1, current - margin)
             right == Min(total_pages, current + margin)
             pages == (IF left > 1 THEN <<Page(1), Ellipsis>> ELSE <<>>)
                      \o PageRange(left, right)
                      \o (IF right < total_pages
                          THEN <<Ellipsis, Page(total_pages)>> ELSE <<>>)
         IN  FilterPages(pages)

\* the calls of the index view: page is clamped to 1..total_pages, which is
\* at least 1
InitPages ==
    /\ NoLogs /\ NoRuns /\ NoAuth
    /\ dbq = NoDbq /\ uploads = {} /\ saved = NoSaved /\ sched = NoSched
    /\ calls = NoCalls
    /\ \E total_pages \in 1..MaxPages :
       \E current \in 1..total_pages :
       \E margin \in 1..MaxMargin :
            pager = [called |-> FALSE, current |-> current,
                     total_pages |-> total_pages, margin |-> margin, result |-> <<>>]

generate ==
    /\ ~pager.called
    /\ pager' = [pager EXCEPT
                    !.called = TRUE,
                    !.result = Generate(pager.current, pager.total_pages, pager.margin)]
    /\ UNCHANGED <<nonSys, dbq, uploads, saved, sched, calls>>

NextPages == generate

SpecPages == InitPages /\ [][NextPages]_vars

\* the pages the list shows: the window around current clipped to
\* 1..total_pages, the first page and the last
Shown(current, total_pages, margin) ==
    { n \in 1..total_pages :
        n = 1 \/ n = total_pages \/ (current - margin <= n /\ n <= current + margin) }

\* the pages 1..k of the list, with one marker for every run of omitted pages
RECURSIVE Navigation(_, _)
Navigation(shown, k) ==
    IF k = 0 THEN <<>>
    ELSE LET before == Navigation(shown, k - 1)
         IN  IF k \in shown THEN Append(before, Page(k))
             ELSE IF before # <<>> /\ before[Len(before)].ellipsis THEN before
             ELSE Append(before, Ellipsis)

\* C21: generate(current, total_pages, margin) returns every page
\* 1..total_pages when total_pages <= 5; for more pages it returns the window
\* current-margin..current+margin clipped to 1..total_pages, plus page 1 and
\* page total_pages, with the marker '...' wherever pages are omitted, so
\* generate(5, 10) = [1, '...', 3, 4, 5, 6, 7, '...', 10].
C21_Pagination ==
    pager.called =>
        /\ pager.total_pages <= 5 => pager.result = PageRange(1, pager.total_pages)
        /\ pager.total_pages > 5 =>
                pager.result
                    = Navigation(Shown(pager.current, pager.total_pages, pager.margin),
                                 pager.total_pages)

----------------------------------------------------------------------------
(* Database.execute_query in src/mapper/db.py *)

\* largest max_retries of a call (the default is 3)
MaxRetries == 3

\* how one pass through the try block may end: the statement ran; the
\* connection or the statement raised OperationalError; the statement raised
\* another error of pymysql
OPERATIONAL == {"OperationalError at connect", "OperationalError at execute"}
TryOutcomes == {"ok", "IntegrityError"} \cup OPERATIONAL

\* cursor.fetchall() of a SELECT, cursor.lastrowid of any other statement
QueryResults(select) ==
    IF select THEN {[kind |-> "rows", value |-> n] : n \in 0..1}
    ELSE {[kind |-> "lastrowid", value |-> n] : n \in {0, 7}}

\* falling off the end of the function
ReturnNone == [kind |-> "None", value |-> 0]

InitDb ==
    /\ NoLogs /\ NoRuns /\ NoAuth
    /\ pager = NoPager /\ uploads = {} /\ saved = NoSaved /\ sched = NoSched
    /\ calls = NoCalls
    /\ \E select \in BOOLEAN, max_retries \in 0..MaxRetries :
            dbq = [NoDbq EXCEPT !.pc = "loop", !.select = select,
                                !.max_retries = max_retries]

\* one pass through the body of "while retries < max_retries"
execute_try ==
    /\ dbq.pc = "loop"
    /\ dbq.retries < dbq.max_retries
    /\ \E outcome \in TryOutcomes :
        \E result \in QueryResults(dbq.select) :
        LET tried == [dbq EXCEPT !.tries = Append(@, [outcome |-> outcome,
                                    result |-> IF outcome = "ok" THEN result
                                               ELSE ReturnNone])]
        IN  dbq' =
            CASE outcome = "ok" ->
                    [tried EXCEPT !.pc = "returned", !.result = result]
              [] outcome \in OPERATIONAL ->
                    IF dbq.retries + 1 < dbq.max_retries
                    THEN [tried EXCEPT !.retries = @ + 1,
                                       !.logging = Append(@, "WARNING")]
                    ELSE [tried EXCEPT !.retries = @ + 1,
                                       !.logging = Append(@, "ERROR"),
                                       !.pc = "raised", !.exc = "OperationalError"]
              [] OTHER ->
                    [tried EXCEPT !.pc = "raised", !.exc = outcome]
    /\ UNCHANGED <<nonSys, pager, uploads, saved, sched, calls>>

\* the loop condition is false: the function ends without a return statement
execute_end ==
    /\ dbq.pc = "loop"
    /\ ~(dbq.retries < dbq.max_retries)
    /\ dbq' = [dbq EXCEPT !.pc = "returned", !.result = ReturnNone]
    /\ UNCHANGED <<nonSys, pager, uploads, saved, sched, calls>>

NextDb == execute_try \/ execute_end

SpecDb == InitDb /\ [][NextDb]_vars

----------------------------------------------------------------------------
(* FileManager in src/core/file_manager.py.  A file name is a sequence of   *)
(* atoms: a run of letters and digits, or one other character                *)

\* most atoms of an uploaded file's name
MaxNameLen == 4

HIGH_RISK_EXTENSIONS ==
    {"exe", "bat", "sh", "dll", "js", "vbs", "cmd", "ps1", "jar", "apk", "scr"}

\* the characters sanitize_filename keeps besides letters and digits
PathChars == {"_", "-", ".", "/", "\\"}

\* c.isalnum(): every atom that is not one of the other characters of the model
IsAlnum(c) == c \notin PathChars \cup {SP}

RECURSIVE Join(_)
Join(t) == IF t = <<>> THEN "" ELSE Head(t) \o Join(Tail(t))

\* is_high_risk(filename)
is_high_risk(filename) ==
    IF ~Contains(filename, ".") THEN FALSE
    ELSE Join(LowerText(AfterLast(filename, "."))) \in HIGH_RISK_EXTENSIONS

\* s.split('/')
RECURSIVE SplitSlash(_)
SplitSlash(t) ==
    IF ~Contains(t, "/") THEN <<t>>
    ELSE <<SubSeq(t, 1, FirstAt(t, "/", 1) - 1)>>
         \o SplitSlash(SubSeq(t, FirstAt(t, "/", 1) + 1, Len(t)))

\* the loop of posixpath.normpath over the components
RECURSIVE NormComps(_, _, _)
NormComps(comps, slashes, done) ==
    IF comps = <<>> THEN done
    ELSE LET comp == Head(comps)
         IN  IF comp = <<>> \/ comp = <<".">>
                THEN NormComps(Tail(comps), slashes, done)
             ELSE IF \/ comp # <<".", ".">>
                     \/ (slashes = 0 /\ done = <<>>)
                     \/ (done # <<>> /\ done[Len(done)] = <<".", ".">>)
                THEN NormComps(Tail(comps), slashes, Append(done, comp))
             ELSE IF done # <<>>
                THEN NormComps(Tail(comps), slashes, SubSeq(done, 1, Len(done) - 1))
             ELSE NormComps(Tail(comps), slashes, done)

\* '/'.join(comps)
RECURSIVE JoinSlash(_)
JoinSlash(comps) ==
    IF comps = <<>> THEN <<>>
    ELSE IF Len(comps) = 1 THEN comps[1]
    ELSE comps[1] \o <<"/">> \o JoinSlash(Tail(comps))

\* os.path.normpath(path) of posixpath: one leading slash is kept, exactly
\* two are kept, three or more become one
NormPath(path) ==
    LET slashes ==
            IF path = <<>> \/ path[1] # "/" THEN 0
            ELSE IF Len(path) >= 2 /\ path[2] = "/" /\ ~(Len(path) >= 3 /\ path[3] = "/")
                 THEN 2 ELSE 1
        comps == NormComps(SplitSlash(path), slashes, <<>>)
        body  == [i \in 1..slashes |-> "/"] \o JoinSlash(comps)
    IN  IF path = <<>> \/ body = <<>> THEN <<".">> ELSE body

\* s.lstrip('/')
RECURSIVE LStripSlash(_)
LStripSlash(t) == IF t # <<>> /\ Head(t) = "/" THEN LStripSlash(Tail(t)) ELSE t

\* s.replace(pat, ''): the occurrences from left to right, not overlapping
RECURSIVE Remove(_, _)
Remove(t, pat) ==
    IF Len(t) < Len(pat) THEN t
    ELSE IF SubSeq(t, 1, Len(pat)) = pat THEN Remove(SubSeq(t, Len(pat) + 1, Len(t)), pat)
    ELSE <<Head(t)>> \o Remove(Tail(t), pat)

\* sanitize_filename(filename)
sanitize_filename(filename) ==
    LET kept    == SelectSeq(filename, LAMBDA c : IsAlnum(c) \/ c \in PathChars)
        forward == [i \in 1..Len(kept) |-> IF kept[i] = "\\" THEN "/" ELSE kept[i]]
        cleaned == LStripSlash(NormPath(forward))
    IN  Remove(Remove(cleaned, <<".", ".", "/">>), <<".", "/">>)

\* seconds of a day; date_str is the number of the day
DAY == 86400
DateStr(t) == t \div DAY

\* a file under the upload folder: the directories above it, its name (with
\* the directories the name itself holds) and its modification time
Stored(dir, name, mtime) == [dir |-> dir, name |-> name, mtime |-> mtime]

\* full_path is the directory base_dir itself
IsDirectory(filename) == filename \in {<<".">>, <<".", ".">>}

\* the upload: FileStorage.filename, and whether content_length is over
\* max_size
Upload(filename, oversize) == [filename |-> filename, oversize |-> oversize]

\* save_file(file, username)
save_file(file, username) ==
    LET filename == sanitize_filename(file.filename)
        raise(exc) == /\ saved' = [called |-> TRUE, raised |-> exc,
                                   filename |-> file.filename, stored |-> <<>>]
                      /\ UNCHANGED uploads
    IN  IF file.oversize THEN raise("ValueError: size")
        ELSE IF is_high_risk(file.filename) THEN raise("ValueError: high risk")
        ELSE IF filename = <<>> THEN raise("ValueError: name")
        ELSE IF IsDirectory(filename) THEN raise("IsADirectoryError")
        ELSE /\ uploads' =
                    { f \in uploads :
                        ~(f.dir = <<username, DateStr(now)>> /\ f.name = filename) }
                    \cup {Stored(<<username, DateStr(now)>>, filename, now)}
             /\ saved' = [called |-> TRUE, raised |-> "",
                          filename |-> file.filename, stored |-> filename]

\* the atoms of the names uploaded
NameAtoms == {"a", "exe", "EXE", ".", "/", SP}

UploadNames == UNION { [1..k -> NameAtoms] : k \in 1..MaxNameLen }

InitUpload ==
    /\ NoLogs /\ NoRuns /\ NoAuth
    /\ pager = NoPager /\ dbq = NoDbq /\ sched = NoSched /\ calls = NoCalls
    /\ uploads = {}
    /\ saved = NoSaved

\* one upload of the index view
upload ==
    /\ ~saved.called
    /\ \E filename \in UploadNames, oversize \in BOOLEAN :
            save_file(Upload(filename, oversize), "ALICE")
    /\ UNCHANGED <<nonSys, pager, dbq, sched, calls>>

NextUpload == upload

SpecUpload == InitUpload /\ [][NextUpload]_vars

\* the name ends in '.' and an extension of the deny-list
EndsHighRisk(name) ==
    \E k \in 1..(Len(name) - 1) :
        /\ name[k] = "."
        /\ Join(LowerText(SubSeq(name, k + 1, Len(name)))) \in HIGH_RISK_EXTENSIONS

\* C25: save_file never stores a high-risk file: when the sanitized name,
\* under which the file would be written, ends in an extension of
\* HIGH_RISK_EXTENSIONS, save_file raises ValueError and nothing is written.
C25_NoHighRiskStored ==
    /\ \A f \in uploads : ~EndsHighRisk(f.name)
    /\ (saved.called /\ EndsHighRisk(sanitize_filename(saved.filename)))
            => /\ saved.raised \in {"ValueError: size", "ValueError: high risk",
                                    "ValueError: name"}
               /\ uploads = {}

----------------------------------------------------------------------------
(* CleanupScheduler in src/core/scheduler.py, over the upload folder that   *)
(* FileManager.save_file fills.  sched.main is the position of the thread   *)
(* that calls start() and stop(), sched.thread that of the cleanup thread   *)

CLEANUP_INTERVAL == 86400
FILE_RETENTION   == 31536000

\* the clock moves in steps of half a retention period
RetentionStep == FILE_RETENTION \div 2

\* the name uploaded while the scheduler runs
SchedNames == {<<"a", ".", "txt">>}

\* a file that lies in the upload folder itself, under no user directory
StrayFile == Stored(<<>>, <<"old", ".", "txt">>, 0)

\* CleanupScheduler(interval, retention, upload_folder): no thread, the
\* event clear
InitSched ==
    /\ NoLogs /\ NoRuns
    /\ db_users = <<>> /\ auth_result = <<>> /\ auth_calls = 0
    /\ pager = NoPager /\ dbq = NoDbq /\ calls = NoCalls
    /\ now = 0
    /\ saved = NoSaved
    /\ uploads \in {{}, {StrayFile}}
    /\ \E interval \in {0, CLEANUP_INTERVAL} :
            sched = [NoSched EXCEPT !.interval = interval, !.main = "init"]

notSched == <<nonSys, pager, dbq, calls>>

\* start(): no thread when interval <= 0
start_always ==
    /\ sched.main = "init"
    /\ sched' = [sched EXCEPT !.main = "started", !.thread = "check"]
    /\ UNCHANGED <<notSched, uploads, saved>>

\* start()
start ==
    /\ sched.main = "init"
    /\ sched' = IF sched.interval <= 0
                THEN [sched EXCEPT !.main = "started"]
                ELSE [sched EXCEPT !.main = "started", !.thread = "check"]
    /\ UNCHANGED <<notSched, uploads, saved>>

\* stop(): set the event; join the thread if there is one
stop ==
    /\ sched.main \in {"init", "started"}
    /\ sched' = [sched EXCEPT
                    !.stop_event = TRUE,
                    !.main = IF sched.thread # "none" THEN "joining" ELSE "stopped"]
    /\ UNCHANGED <<notSched, uploads, saved>>

\* self._thread.join() returns, and stop() with it
join ==
    /\ sched.main = "joining"
    /\ sched.thread = "ended"
    /\ sched' = [sched EXCEPT !.main = "stopped"]
    /\ UNCHANGED <<notSched, uploads, saved>>

\* _run: while not self._stop_event.is_set()
run_check ==
    /\ sched.thread = "check"
    /\ sched' = [sched EXCEPT !.thread = IF sched.stop_event THEN "ended" ELSE "cleanup"]
    /\ UNCHANGED <<notSched, uploads, saved>>

\* _cleanup_files: iterdir() yields the entries of the upload folder itself;
\* the user directories among them are no files
cleanup_files ==
    /\ sched.thread = "cleanup"
    /\ LET cutoff == now - FILE_RETENTION
       IN  /\ uploads' = { f \in uploads : ~(f.dir = <<>> /\ f.mtime < cutoff) }
           /\ sched' = [sched EXCEPT !.thread = "wait", !.passed = TRUE,
                                      !.cutoff = cutoff]
    /\ UNCHANGED <<notSched, saved>>

\* self._stop_event.wait(self.interval) returns: the event is set, or the
\* interval is over
run_wait ==
    /\ sched.thread = "wait"
    /\ sched' = [sched EXCEPT !.thread = "check"]
    /\ UNCHANGED <<notSched, uploads, saved>>

\* an upload while the scheduler exists
store ==
    /\ \E filename \in SchedNames : save_file(Upload(filename, FALSE), "ALICE")
    /\ UNCHANGED <<nonSys, pager, dbq, sched, calls>>

\* time passes
TimePasses ==
    /\ now < MaxTicks * RetentionStep
    /\ now' = now + RetentionStep
    /\ UNCHANGED <<files, logged, web, logsVars, runVars, db_users, auth_result,
                   auth_calls, sysVars>>

NextSched ==
    \/ start \/ stop \/ join
    \/ run_check \/ cleanup_files \/ run_wait
    \/ store
    \/ TimePasses

\* the cleanup thread and a thread blocked in join() get to run; wait()
\* returns after interval seconds at the latest
SpecSched ==
    /\ InitSched /\ [][NextSched]_vars
    /\ WF_vars(run_check) /\ WF_vars(cleanup_files) /\ WF_vars(run_wait)
    /\ WF_vars(join)

\* the thread exists exactly when start() was called with interval > 0
C23_ThreadOnlyIfEnabled ==
    /\ sched.thread # "none" => sched.interval > 0
    /\ (sched.main = "started" /\ sched.interval > 0) => sched.thread # "none"

\* once the loop has seen the event set, no pass starts and nothing is deleted
C23_Step ==
    sched.thread = "ended" =>
        /\ sched'.thread = "ended"
        /\ sched'.passed = sched.passed /\ sched'.cutoff = sched.cutoff
        /\ \A f \in uploads : \E g \in uploads' : g.dir = f.dir /\ g.name = f.name

\* C23: start() creates the cleanup thread only when interval > 0; after
\* stop() is called the cleanup loop eventually terminates and stop() returns,
\* also when the scheduler was never started, and no cleanup pass starts once
\* the loop has observed the stop event.
C23_StartStop ==
    /\ []C23_ThreadOnlyIfEnabled
    /\ [][C23_Step]_vars
    /\ sched.stop_event ~> (sched.main = "stopped" /\ sched.thread \in {"none", "ended"})

\* stop() has returned after joining a thread that had run a pass
C23_Witness ==
    /\ sched.main = "stopped"
    /\ sched.thread = "ended"
    /\ sched.passed

\* a file save_file stored, as opposed to one found in the upload folder
StoredBySaveFile(f) == f.dir # <<>>

\* after a cleanup pass no file save_file stored is left that was older than
\* the retention period when the pass ran
C24_PassComplete ==
    sched.passed => \A f \in uploads : StoredBySaveFile(f) => ~(f.mtime < sched.cutoff)

\* a file that disappears is older than the retention period
C24_Step ==
    \A f \in uploads :
        (\A g \in uploads' : ~(g.dir = f.dir /\ g.name = f.name))
            => f.mtime < now - FILE_RETENTION

\* C24: while the cleanup scheduler runs, every file stored by save_file
\* whose modification time is older than the retention period is deleted by
\* a cleanup pass, and no file younger than the retention period is ever
\* deleted.
C24_Retention == []C24_PassComplete /\ [][C24_Step]_vars

----------------------------------------------------------------------------
(* validate_credentials called by several request threads at once: the row  *)
(* is read by one statement and written back by another                      *)

\* number of request threads that log in
NumLogins == 2

Logins == 1..NumLogins

IdleCall == [pc |-> "idle", password |-> "", user_data |-> NoRow]

\* calls.wrong: the wrong-password checks completed since lock_time was last
\* set or attempts last reset by a successful login
InitLogins ==
    /\ NoLogs /\ NoRuns
    /\ pager = NoPager /\ dbq = NoDbq /\ uploads = {} /\ saved = NoSaved
    /\ sched = NoSched
    /\ db_users = [u \in Usernames |-> IF u = "ALICE" THEN NewRow("right") ELSE NoRow]
    /\ now = 0
    /\ auth_result = NoResult
    /\ auth_calls = 0
    /\ calls = [thread |-> [c \in Logins |-> IdleCall], wrong |-> 0]

\* thread c enters validate_credentials and runs _load_user; it returns at
\* once when there is no row or the account is locked
load_user(c, username, password) ==
    /\ calls.thread[c].pc = "idle"
    /\ auth_calls < MaxCalls
    /\ auth_calls' = auth_calls + 1
    /\ LET user_data == LoadUser(username)
       IN  IF ~user_data.exists
           THEN /\ auth_result' = Result(username, password, FALSE, MSG_NO_USER, 0)
                /\ UNCHANGED calls
           ELSE IF IsLocked(user_data, now)
           THEN /\ auth_result' = Result(username, password, FALSE, MSG_LOCKED,
                                         RemainingLockTime(user_data, now))
                /\ UNCHANGED calls
           ELSE /\ calls' = [calls EXCEPT !.thread[c] =
                                [pc |-> "loaded", password |-> password,
                                 user_data |-> user_data]]
                /\ UNCHANGED auth_result
    /\ UNCHANGED <<db_users, now, files, logged, web, logsVars, runVars,
                   pager, dbq, uploads, saved, sched>>

\* thread c checks the password against the row it holds, updates that row
\* and runs _save_user with it
save_user(c) ==
    /\ calls.thread[c].pc = "loaded"
    /\ LET user_data == calls.thread[c].user_data
           password  == calls.thread[c].password
           locks     == user_data.attempts + 1 >= MAX_ATTEMPTS
       IN  IF password # user_data.password
           THEN /\ db_users' = [db_users EXCEPT !["ALICE"] =
                        IF locks
                        THEN [user_data EXCEPT !.lock_time = DateTime(now),
                                               !.attempts = 0]
                        ELSE [user_data EXCEPT !.attempts = @ + 1]]
                /\ auth_result' = Result("ALICE", password, FALSE, MSG_WRONG, 0)
                /\ calls' = [calls EXCEPT !.thread[c] = IdleCall,
                                          !.wrong = IF locks THEN 0 ELSE @ + 1]
           ELSE /\ db_users' = [db_users EXCEPT !["ALICE"] =
                        [user_data EXCEPT !.attempts = 0, !.lock_time = NULL]]
                /\ auth_result' = Result("ALICE", password, TRUE, "", 0)
                /\ calls' = [calls EXCEPT !.thread[c] = IdleCall, !.wrong = 0]
    /\ UNCHANGED <<auth_calls, now, files, logged, web, logsVars, runVars,
                   pager, dbq, uploads, saved, sched>>

NextLogins ==
    \E c \in Logins :
        \/ \E username \in Usernames, password \in Passwords :
                load_user(c, username, password)
        \/ save_user(c)

SpecLogins == InitLogins /\ [][NextLogins]_vars

\* C29: under any interleaving of concurrent validate_credentials calls for
\* one user no failed attempt is lost: at most max_attempts wrong-password
\* checks complete between two moments at which lock_time is set or attempts
\* is reset by a successful login.
C29_NoLostAttempt == calls.wrong <= MAX_ATTEMPTS

====
